---- MODULE Spec2Model ----
(***************************************************************************)
(* ArtistGrid tracker view: the background download manager                *)
(* (DownloadProvider), the batch URL resolver (preloadAllUrls), the play   *)
(* handlers and the tracker cache (getCache / setCache).                   *)
(*                                                                         *)
(* React state is modelled as the committed value plus the queue of        *)
(* updater functions passed to setJobs: an updater runs when the provider  *)
(* re-renders, or at the call itself when React computes the state eagerly *)
(* (only possible when no update is queued).  Refs are plain variables.    *)
(***************************************************************************)
EXTENDS Integers, Sequences, FiniteSets, TLC

\* ---------------------------------------------------------------- constants
CONCURRENT_DOWNLOADS == 3
MAX_ZIP_SIZE == 500 * 1024 * 1024
MAX_RETRY_ATTEMPTS == 2
CACHE_EXPIRY == 1000 * 60 * 60 * 24
\* const batchSize = 10 in preloadAllUrls
batchSize == 10

\* ------------------------------------------------------------------- bounds
MaxJobs == 2
MaxItems == 2
MaxPending == 2
MaxFails == 3
MaxTracks == 11
MaxPlays == 1
MaxTicks == 2
MaxViewTracks == 3
MaxCalls == 2
MaxSelections == 8
MaxTargets == 2
MaxLoads == 2
MaxWaves == 1
MaxPlayerTracks == 3
MaxQueue == 3
MaxPlayerCalls == 2
MaxContentLength == 8
MaxBody == 12
MaxChunk == 3
MaxNameLen == 2
MaxUrlLen == 4
MaxLinks == 2
MaxShareLen == 4
MaxZipItems == 2
MaxPreloadQueue == 4
MaxQueueChanges == 2

JobIds == 1..MaxJobs
ItemIds == 1..MaxItems
\* Sizes a downloaded blob may have: two of the first fill the ZIP cap exactly.
HalfCap == MAX_ZIP_SIZE \div 2
BlobSizes == {HalfCap, HalfCap + 1}

VARIABLES
  jobs,             \* useState jobs: committed value, job id -> DownloadJob
  pending,          \* updaters handed to setJobs and not yet run
  activeDownloads,  \* activeDownloadsRef
  downloadQueue,    \* downloadQueueRef
  inflight,         \* downloadSingleItem calls awaiting downloadFileAsBlob
  zipData,          \* zipDataRef: job id -> (item id -> blob size)
  creatingZips,     \* creatingZipsRef
  downloadUrls,     \* downloadUrlsRef: jobs that own an object URL
  zipRuns,          \* checkAndCreateZips calls suspended in a ZIP assembly
  nextJobId,        \* number of jobs started so far, plus one
  failCount,        \* history: failed fetches per item
  pushCount,        \* history: times an item was put in the download queue
  zipEnded,         \* history: jobs for which a ZIP assembly has ended
  fetchedBytes      \* history: per job, the bytes of the files downloaded

dmVars == <<jobs, pending, activeDownloads, downloadQueue, inflight,
            zipData, creatingZips, downloadUrls, zipRuns, nextJobId,
            failCount, pushCount, zipEnded, fetchedBytes>>

VARIABLES
  tracks,        \* the track URLs of the tracker payload, in document order
  storage,       \* localStorage: key -> CacheEntry
  now,           \* Date.now()
  ticks,         \* number of clock advances so far
  cached,        \* what the last getCache call returned
  evicted,       \* history: the last getCache call removed its key
  lastOp,        \* the handler that ran last
  status,        \* useState status
  resolvedUrls,  \* useState resolvedUrls (a Map)
  pass,          \* the running preloadAllUrls call
  waves,         \* batches the current pass has started
  resolveCalls,  \* history: resolvePlayableUrl calls per URL in the current pass
  redundant,     \* history: URLs a resolver request was sent for while the
                 \* resolved map held an entry for them
  playFlying,    \* handlePlayTrack calls awaiting resolvePlayableUrl
  currentTrack   \* playerState.currentTrack?.url, as a set of at most one URL

viewVars == <<tracks, storage, now, ticks, cached, evicted, lastOp, status, resolvedUrls,
              pass, waves, resolveCalls, redundant, playFlying, currentTrack>>

VARIABLES
  lastArgs,      \* history: the (trackerId, tab) of the last cache call
  lastFault,     \* history: what went wrong inside the last cache call
  raised         \* history: the last cache call raised an error to its caller

cacheVars == <<lastArgs, lastFault, raised>>

VARIABLES
  tidalApiIndex, \* the module-level let tidalApiIndex
  mirrorLog,     \* history: the base URLs selectTidalApi returned, in order
  resFlying,     \* resolvePlayableUrl calls awaiting their fetch, per provider
  resLast        \* history: the resolvePlayableUrl call that settled last

resolverVars == <<tidalApiIndex, mirrorLog, resFlying, resLast>>

VARIABLES
  loads,         \* the loadTrackerData calls made so far, in order
  display,         \* useState status, data, resolvedUrls, resolveProgress
  loadCache,     \* the (id, tab) targets getCache has an entry for
  staleWrites    \* history: the state an earlier call wrote after a later call began

loadVars == <<loads, display, loadCache, staleWrites>>

\* the variables the download manager and the tracker view do not use
\* the provider's lifetime and the jobs that left the list
VARIABLES
  mounted,          \* FALSE once the cleanup of the provider's effect has run
  gone              \* history: per job, the updater that removed it ("" if none)
jobsVars == <<mounted, gone>>

\* the player provider's state as the tracker view drives it
VARIABLES
  allPlayableTracks, \* useMemo allPlayableTracks: the tracks with a resolved URL
  playerState,       \* usePlayer().state: currentTrack, isPlaying, queue
  handlerCalls,      \* handlePlayTrack, handlePlayNext, handleAddToQueue calls
                     \* awaiting resolvePlayableUrl
  lastToast,         \* the title of the last toast
  playRequested      \* history: the URL of the last handlePlayTrack call that
                     \* went on to resolve its URL, 0 if there is none
playerVars == <<allPlayableTracks, playerState, handlerCalls, lastToast,
                playRequested>>

\* one downloadFileAsBlob call and the item it reports to
VARIABLES
  download,      \* the call: its phase, the announced total, the bytes loaded
  itemProgress   \* the progress field of the item
progressVars == <<download, itemProgress>>

\* the JSZip object one assembly fills
VARIABLES
  zipFiles,      \* the paths of the files the archive holds
  zipAdded       \* the completed items the loop has put into the archive
zipVars == <<zipFiles, zipAdded>>

\* resolvePlayableUrl on URLs that are written out
VARIABLES
  lookup,        \* the last resolvePlayableUrl call: its URL, the provider tag,
                 \* the value returned, whether fetch was called
  linkMap,       \* the resolved record of a preloadAllUrls pass
  linkRequests   \* history: the fetch calls of that pass
classifyVars == <<lookup, linkMap, linkRequests>>

\* the share link of a track
VARIABLES
  shareUrl,      \* the track URL that is shared, as character codes
  shareToken,    \* encodeTrackForUrl(url), the track parameter of the link
  shareDecoded   \* what decodeTrackFromUrl made of the parameter
shareVars == <<shareUrl, shareToken, shareDecoded>>

\* the audio elements made ahead of playback
VARIABLES
  preloadQueue,    \* playerState.queue as the last render saw it: the
                   \* playableUrl of each entry, 0 for an entry without one
  preloadedAudio,  \* preloadedAudioRef.current: URL -> audio element
  audioSrc,        \* the src of every audio element made so far, 0 for ""
  effectPending,   \* the effect on playerState.queue has yet to run
  queueChanges,    \* the number of queue changes so far
  preloadMounted   \* the component is mounted
preloadVars == <<preloadQueue, preloadedAudio, audioSrc, effectPending,
                 queueChanges, preloadMounted>>

moreVars == <<cacheVars, resolverVars, loadVars, jobsVars, playerVars,
             progressVars,
             zipVars,
             classifyVars,
             shareVars,
             preloadVars>>

vars == <<dmVars, viewVars, moreVars>>

\* ------------------------------------------------------------------ helpers
RECURSIVE SumOver(_, _)
SumOver(f, S) ==
  IF S = {} THEN 0
  ELSE LET x == CHOOSE y \in S : TRUE IN f[x] + SumOver(f, S \ {x})

Min(a, b) == IF a < b THEN a ELSE b

ItemsWith(job, st) == {i \in DOMAIN job.items : job.items[i].status = st}

NumCompleted(job) == Cardinality(ItemsWith(job, "completed"))
NumFailed(job) == Cardinality(ItemsWith(job, "failed"))

AllDone(job) ==
  \A i \in DOMAIN job.items : job.items[i].status \in {"completed", "failed"}

\* a DownloadItem and a DownloadJob as startDownload builds them
NewItem == [status |-> "pending", retryCount |-> 0]

NewJob(n) ==
  [items |-> [i \in 1..n |-> NewItem], status |-> "active",
   completedCount |-> 0, failedCount |-> 0,
   zipBlob |-> FALSE, isCreatingZip |-> FALSE, downloadUrl |-> FALSE]

\* ------------------------------------------------------------ the updaters
\* faulty variant of RetryAllowed: one retry too many
RetryAllowed_OneMore(rc) == rc <= MAX_RETRY_ATTEMPTS

\* if (i.retryCount < MAX_RETRY_ATTEMPTS)
RetryAllowed(rc) == rc < MAX_RETRY_ATTEMPTS

HasItem(js, j, i) == j \in DOMAIN js /\ i \in DOMAIN js[j].items

MarkDownloading(js, j, i) ==
  IF HasItem(js, j, i)
  THEN [js EXCEPT ![j].items[i].status = "downloading"]
  ELSE js

\* faulty variant of CompletedCountOf: counts the items as they were before the update
CompletedCountOf_Stale(newItems) ==
  Cardinality({i \in DOMAIN newItems : newItems[i].status = "completed"}) - 1

CompletedCountOf(newItems) ==
  Cardinality({i \in DOMAIN newItems : newItems[i].status = "completed"})

MarkCompleted(js, j, i) ==
  IF HasItem(js, j, i)
  THEN LET newItems == [js[j].items EXCEPT ![i].status = "completed"]
       IN [js EXCEPT ![j].items = newItems,
                     ![j].completedCount = CompletedCountOf(newItems)]
  ELSE js

FailedCountOf(newItems) ==
  Cardinality({i \in DOMAIN newItems : newItems[i].status = "failed"})

\* TRUE when the failure updater re-enqueues the item
WillRetry(js, j, i) == HasItem(js, j, i) /\ RetryAllowed(js[j].items[i].retryCount)

\* faulty variant of MarkFailure: the retry leaves retryCount as it was
MarkFailure_NoCount(js, j, i) ==
  IF HasItem(js, j, i)
  THEN LET old == js[j].items[i]
           new == IF RetryAllowed(old.retryCount)
                  THEN [status |-> "pending", retryCount |-> old.retryCount]
                  ELSE [old EXCEPT !.status = "failed"]
           newItems == [js[j].items EXCEPT ![i] = new]
       IN [js EXCEPT ![j].items = newItems,
                     ![j].failedCount = FailedCountOf(newItems)]
  ELSE js

MarkFailure(js, j, i) ==
  IF HasItem(js, j, i)
  THEN LET old == js[j].items[i]
           new == IF RetryAllowed(old.retryCount)
                  THEN [status |-> "pending", retryCount |-> old.retryCount + 1]
                  ELSE [old EXCEPT !.status = "failed"]
           newItems == [js[j].items EXCEPT ![i] = new]
       IN [js EXCEPT ![j].items = newItems,
                     ![j].failedCount = FailedCountOf(newItems)]
  ELSE js

AddJob(js, j, n) ==
  [k \in DOMAIN js \cup {j} |-> IF k = j THEN NewJob(n) ELSE js[k]]

MarkCreating(js, j) ==
  IF j \in DOMAIN js THEN [js EXCEPT ![j].isCreatingZip = TRUE] ELSE js

MarkZipDone(js, j) ==
  IF j \in DOMAIN js
  THEN [js EXCEPT ![j].status = "completed", ![j].zipBlob = TRUE,
                  ![j].isCreatingZip = FALSE, ![j].downloadUrl = TRUE]
  ELSE js

MarkZipFailed(js, j) ==
  IF j \in DOMAIN js
  THEN [js EXCEPT ![j].status = "failed", ![j].isCreatingZip = FALSE]
  ELSE js

MarkNoData(js, j) ==
  IF j \in DOMAIN js THEN [js EXCEPT ![j].status = "failed"] ELSE js

\* faulty variant of ClearJobs: the filter keeps the failed jobs too
ClearJobs_KeepFailed(prev) ==
  [j \in {k \in DOMAIN prev : prev[k].status # "completed"} |-> prev[j]]

\* prev.filter(j => j.status === "active")
ClearJobs(prev) ==
  [j \in {k \in DOMAIN prev : prev[k].status = "active"} |-> prev[j]]

\* prev.filter(j => j.id !== jobId)
RemoveJob(prev, jobId) == [j \in DOMAIN prev \ {jobId} |-> prev[j]]

\* the value an updater returns for the state prev
RunUpdater(prev, u) ==
  CASE u.t = "add"         -> AddJob(prev, u.j, u.i)
    [] u.t = "downloading" -> MarkDownloading(prev, u.j, u.i)
    [] u.t = "completed"   -> MarkCompleted(prev, u.j, u.i)
    [] u.t = "failure"     -> MarkFailure(prev, u.j, u.i)
    [] u.t = "creating"    -> MarkCreating(prev, u.j)
    [] u.t = "zipdone"     -> MarkZipDone(prev, u.j)
    [] u.t = "zipfailed"   -> MarkZipFailed(prev, u.j)
    [] u.t = "nodata"      -> MarkNoData(prev, u.j)
    [] u.t = "clear"       -> ClearJobs(prev)
    [] u.t = "dismiss"     -> RemoveJob(prev, u.j)

Upd(t, j, i) == [t |-> t, j |-> j, i |-> i, eager |-> FALSE]

\* ------------------------------------------------------------- processQueue
\* faulty variant of Dispatchable: the loop test admits one download too many
Dispatchable_OffByOne(active, queue) ==
  IF active <= CONCURRENT_DOWNLOADS
  THEN Min(CONCURRENT_DOWNLOADS + 1 - active, Len(queue))
  ELSE 0

\* number of items the while loop dispatches
Dispatchable(active, queue) ==
  IF active < CONCURRENT_DOWNLOADS
  THEN Min(CONCURRENT_DOWNLOADS - active, Len(queue))
  ELSE 0

RECURSIVE DownloadingUpdates(_)
DownloadingUpdates(items) ==
  IF items = <<>> THEN <<>>
  ELSE <<Upd("downloading", Head(items)[1], Head(items)[2])>>
         \o DownloadingUpdates(Tail(items))

SeqRange(s) == {s[k] : k \in 1..Len(s)}

\* processQueue run on the counter active, the queue and the update list pend
ProcessQueue(active, queue, pend, flying) ==
  LET k == Dispatchable(active, queue)
      taken == SubSeq(queue, 1, k)
  IN /\ activeDownloads' = active + k
     /\ downloadQueue' = SubSeq(queue, k + 1, Len(queue))
     /\ pending' = pend \o DownloadingUpdates(taken)
     /\ inflight' = flying \cup SeqRange(taken)

\* ------------------------------------------------------- DownloadProvider
\* const [jobs, setJobs] = useState([]) and the refs of the provider
InitDM ==
  /\ jobs = [k \in {} |-> 0]
  /\ pending = <<>>
  /\ activeDownloads = 0
  /\ downloadQueue = <<>>
  /\ inflight = {}
  /\ zipData = [k \in {} |-> 0]
  /\ creatingZips = {}
  /\ downloadUrls = {}
  /\ zipRuns = {}
  /\ nextJobId = 1
  /\ failCount = [it \in JobIds \X ItemIds |-> 0]
  /\ pushCount = [it \in JobIds \X ItemIds |-> 0]
  /\ zipEnded = {}
  /\ fetchedBytes = [j \in JobIds |-> 0]

\* startDownload(params) with n items: the new job is appended by an updater,
\* its items are queued at once and processQueue runs.
StartDownload(n) ==
  /\ nextJobId <= MaxJobs
  /\ Len(pending) < MaxPending
  /\ LET j == nextJobId
         newQueue == downloadQueue \o [i \in 1..n |-> <<j, i>>]
     IN /\ ProcessQueue(activeDownloads, newQueue,
                        Append(pending, Upd("add", j, n)), inflight)
        /\ pushCount' = [it \in JobIds \X ItemIds |->
                           IF it[1] = j /\ it[2] \in 1..n THEN 1 ELSE pushCount[it]]
        /\ nextJobId' = j + 1
  /\ UNCHANGED <<jobs, zipData, creatingZips, downloadUrls, zipRuns,
                 failCount, zipEnded, fetchedBytes>>

\* faulty variant of Released: the slot is not given back
Released_Kept(active) == active

\* activeDownloadsRef.current-- at the end of downloadSingleItem
Released(active) == active - 1

\* downloadSingleItem after the await, result non-null: the blob is stored,
\* the completed updater is handed to setJobs, the slot is freed.
FetchSucceed(it, size) ==
  /\ it \in inflight
  /\ Len(pending) < MaxPending
  /\ LET j == it[1]
         i == it[2]
         old == IF j \in DOMAIN zipData THEN zipData[j] ELSE [k \in {} |-> 0]
         new == [k \in DOMAIN old \cup {i} |-> IF k = i THEN size ELSE old[k]]
     IN /\ zipData' = [k \in DOMAIN zipData \cup {j} |->
                         IF k = j THEN new ELSE zipData[k]]
        /\ fetchedBytes' = [fetchedBytes EXCEPT ![j] = @ + size]
        /\ ProcessQueue(Released(activeDownloads), downloadQueue,
                        Append(pending, Upd("completed", j, i)), inflight \ {it})
  /\ UNCHANGED <<jobs, creatingZips, downloadUrls, zipRuns, nextJobId,
                 failCount, pushCount, zipEnded>>

\* downloadSingleItem after the await, result null or an exception: the failure
\* updater is handed to setJobs.  React runs it at once (eager) only when no
\* update is queued; otherwise it runs at the next render, after processQueue.
FetchFail(it, eager) ==
  /\ it \in inflight
  /\ Len(pending) < MaxPending
  /\ eager => pending = <<>>
  /\ SumOver(failCount, JobIds \X ItemIds) < MaxFails
  /\ LET j == it[1]
         i == it[2]
         pushed == eager /\ WillRetry(jobs, j, i)
         queue1 == IF pushed THEN Append(downloadQueue, it) ELSE downloadQueue
         u == [t |-> "failure", j |-> j, i |-> i, eager |-> eager]
     IN /\ ProcessQueue(Released(activeDownloads), queue1, Append(pending, u),
                        inflight \ {it})
        /\ pushCount' = IF pushed THEN [pushCount EXCEPT ![it] = @ + 1]
                        ELSE pushCount
  /\ failCount' = [failCount EXCEPT ![it] = @ + 1]
  /\ UNCHANGED <<jobs, zipData, creatingZips, downloadUrls, zipRuns,
                 nextJobId, zipEnded, fetchedBytes>>

\* ------------------------------------------------------ checkAndCreateZips
\* job.status === "active" && allDone && !job.zipBlob && !job.isCreatingZip,
\* read from the job list the effect was created with
Eligible(job) ==
  job.status = "active" /\ AllDone(job) /\ ~job.zipBlob /\ ~job.isCreatingZip

RECURSIVE EligibleFrom(_, _)
EligibleFrom(js, from) ==
  IF from > MaxJobs THEN <<>>
  ELSE (IF from \in DOMAIN js /\ Eligible(js[from])
        THEN <<[id |-> from, done |-> ItemsWith(js[from], "completed")]>>
        ELSE <<>>) \o EligibleFrom(js, from + 1)

\* totalSize after the loop over job.items
ZipTotal(done, data) == SumOver(data, done \cap DOMAIN data)

\* faulty variant of ZipTooBig: the cap is one byte too high
ZipTooBig_OffByOne(total) == total > MAX_ZIP_SIZE + 1

\* if (totalSize > MAX_ZIP_SIZE) throw
ZipTooBig(total) == total > MAX_ZIP_SIZE

\* the for loop of checkAndCreateZips from the job rest[1] on, up to its next
\* await: cz is creatingZipsRef, pend the update list, zd is zipDataRef
RECURSIVE EffectLoop(_, _, _, _)
EffectLoop(rest, cz, pend, zd) ==
  IF rest = <<>> THEN [cz |-> cz, pend |-> pend, run |-> {}]
  ELSE LET e == Head(rest)
       IN IF e.id \in cz THEN EffectLoop(Tail(rest), cz, pend, zd)
          ELSE IF e.id \in DOMAIN zd /\ DOMAIN zd[e.id] # {}
          THEN [cz |-> cz \cup {e.id},
                pend |-> Append(pend, Upd("creating", e.id, 0)),
                run |-> {[job |-> e.id, total |-> ZipTotal(e.done, zd[e.id]),
                          rest |-> Tail(rest)]}]
          ELSE EffectLoop(Tail(rest), cz, Append(pend, Upd("nodata", e.id, 0)), zd)

\* the updaters of the list pend run in order on the state js; a failure
\* updater that was not run eagerly pushes its item when it runs
RECURSIVE RunUpdaters(_, _, _, _)
RunUpdaters(js, pend, queue, pushed) ==
  IF pend = <<>> THEN [jobs |-> js, queue |-> queue, pushed |-> pushed]
  ELSE LET u == Head(pend)
           push == u.t = "failure" /\ ~u.eager /\ WillRetry(js, u.j, u.i)
       IN RunUpdaters(RunUpdater(js, u), Tail(pend),
                      IF push THEN Append(queue, <<u.j, u.i>>) ELSE queue,
                      IF push THEN [pushed EXCEPT ![<<u.j, u.i>>] = @ + 1]
                      ELSE pushed)

\* the provider re-renders: React runs the queued updaters, commits the new
\* job list, and the effect on [jobs] runs checkAndCreateZips with it
Render ==
  /\ pending # <<>>
  /\ LET rr == RunUpdaters(jobs, pending, downloadQueue, pushCount)
         r == EffectLoop(EligibleFrom(rr.jobs, 1), creatingZips, <<>>, zipData)
     IN /\ jobs' = rr.jobs
        /\ downloadQueue' = rr.queue
        /\ pushCount' = rr.pushed
        /\ creatingZips' = r.cz
        /\ pending' = r.pend
        /\ zipRuns' = zipRuns \cup r.run
  /\ UNCHANGED <<activeDownloads, inflight, zipData, downloadUrls, nextJobId,
                 failCount, zipEnded, fetchedBytes>>

\* faulty variant of DeleteJobData: the blobs of a zipped job are kept
DeleteJobData_Kept(zd, j) == zd

\* zipDataRef.current.delete(job.id)
DeleteJobData(zd, j) == [k \in DOMAIN zd \ {j} |-> zd[k]]

\* a suspended checkAndCreateZips resumes: the assembly ended (ok) or threw,
\* and the loop goes on over the rest of the job list it was created with
ZipFinish(run, ok) ==
  /\ run \in zipRuns
  /\ Len(pending) < MaxPending
  /\ ok => ~ZipTooBig(run.total)
  /\ LET j == run.job
         zd1 == IF ok THEN DeleteJobData(zipData, j) ELSE zipData
         pend1 == Append(pending, Upd(IF ok THEN "zipdone" ELSE "zipfailed", j, 0))
         r == EffectLoop(run.rest, creatingZips \ {j}, pend1, zd1)
     IN /\ zipData' = zd1
        /\ downloadUrls' = IF ok THEN downloadUrls \cup {j} ELSE downloadUrls
        /\ creatingZips' = r.cz
        /\ pending' = r.pend
        /\ zipRuns' = (zipRuns \ {run}) \cup r.run
        /\ zipEnded' = zipEnded \cup {j}
  /\ UNCHANGED <<jobs, activeDownloads, downloadQueue, inflight,
                 nextJobId, failCount, pushCount, fetchedBytes>>

NextDM ==
  \/ \E n \in ItemIds : StartDownload(n)
  \/ \E it \in JobIds \X ItemIds : \E size \in BlobSizes : FetchSucceed(it, size)
  \/ \E it \in JobIds \X ItemIds : \E eager \in BOOLEAN : FetchFail(it, eager)
  \/ Render
  \/ \E run \in zipRuns : \E ok \in BOOLEAN : ZipFinish(run, ok)

\* ------------------------------------------- clearCompleted, dismissJob
InitJobs ==
  /\ mounted = TRUE
  /\ gone = [j \in JobIds |-> ""]

\* completedJobs of DownloadFloatingUI: the jobs the clear button is shown for
\* and the jobs that carry a dismiss button
NotActive(js) == {j \in DOMAIN js : js[j].status # "active"}

\* clearCompleted(): the callback of the last render reads the job list of
\* that render, revokes the URLs of its completed and failed jobs, then hands
\* the filter to setJobs
ClearCompleted ==
  /\ mounted
  /\ NotActive(jobs) # {}
  /\ Len(pending) < MaxPending
  /\ LET completedJobs == {j \in DOMAIN jobs :
                             jobs[j].status \in {"completed", "failed"}}
     IN downloadUrls' = downloadUrls \ completedJobs
  /\ pending' = Append(pending, Upd("clear", 0, 0))
  /\ UNCHANGED <<jobs, activeDownloads, downloadQueue, inflight, zipData,
                 creatingZips, zipRuns, nextJobId, failCount, pushCount,
                 zipEnded, fetchedBytes, jobsVars>>

\* dismissJob(jobId), offered for the jobs that are not active
DismissJob(jobId) ==
  /\ mounted
  /\ jobId \in NotActive(jobs)
  /\ Len(pending) < MaxPending
  /\ downloadUrls' = downloadUrls \ {jobId}
  /\ pending' = Append(pending, Upd("dismiss", jobId, 0))
  /\ zipData' = [k \in DOMAIN zipData \ {jobId} |-> zipData[k]]
  /\ creatingZips' = creatingZips \ {jobId}
  /\ UNCHANGED <<jobs, activeDownloads, downloadQueue, inflight, zipRuns,
                 nextJobId, failCount, pushCount, zipEnded, fetchedBytes,
                 jobsVars>>

\* the cleanup of the provider's effect: every registered URL is revoked
Unmount ==
  /\ mounted
  /\ mounted' = FALSE
  /\ downloadUrls' = {}
  /\ UNCHANGED <<jobs, pending, activeDownloads, downloadQueue, inflight,
                 zipData, creatingZips, zipRuns, nextJobId, failCount,
                 pushCount, zipEnded, fetchedBytes, gone>>

\* the updater that removes each job, the list pend run in order from js
RECURSIVE GoneAfter(_, _, _)
GoneAfter(js, pend, g) ==
  IF pend = <<>> THEN g
  ELSE LET js1 == RunUpdater(js, Head(pend))
       IN GoneAfter(js1, Tail(pend),
                    [j \in JobIds |-> IF j \in DOMAIN js \ DOMAIN js1
                                      THEN Head(pend).t ELSE g[j]])

\* a mounted provider takes every step; after the cleanup the downloads and
\* the ZIP assemblies that were under way still settle, nothing renders
NextJobs ==
  \/ /\ mounted
     /\ \/ \E n \in ItemIds : StartDownload(n)
        \/ \E it \in JobIds \X ItemIds : \E size \in BlobSizes : FetchSucceed(it, size)
        \/ \E it \in JobIds \X ItemIds : \E eager \in BOOLEAN : FetchFail(it, eager)
        \/ \E run \in zipRuns : \E ok \in BOOLEAN : ZipFinish(run, ok)
     /\ UNCHANGED jobsVars
  \/ Render /\ mounted /\ gone' = GoneAfter(jobs, pending, gone) /\ UNCHANGED mounted
  \/ ClearCompleted
  \/ \E jobId \in JobIds : DismissJob(jobId)
  \/ Unmount
  \/ /\ ~mounted
     /\ \/ \E it \in JobIds \X ItemIds : \E size \in BlobSizes : FetchSucceed(it, size)
        \/ \E it \in JobIds \X ItemIds : \E eager \in BOOLEAN : FetchFail(it, eager)
        \/ \E run \in zipRuns : \E ok \in BOOLEAN : ZipFinish(run, ok)
     /\ UNCHANGED jobsVars

\* ============================================================ tracker view
Urls == 1..(MaxTracks + 1)
TrackerId == "X"
CACHE_KEY_PREFIX == "artistgrid_tracker_"
\* the optional parameter tab: undefined, or a string
NoTab == [defined |-> FALSE, s |-> ""]
Tab(s) == [defined |-> TRUE, s |-> s]
\* the values a resolution yields: a string, null, undefined
Undefined == [k |-> "undefined", u |-> 0]
Null == [k |-> "null", u |-> 0]
NoEntry == [none |-> TRUE]
EmptyMap == [k \in {} |-> 0]
Playable(u) == [k |-> "string", u |-> u]

\* getTrackSource, on the URLs of the model: URL u is of the provider Kind(u)
Kind(u) ==
  CASE u = 2     -> "krakenfiles"
    [] u = 3     -> "imgur"
    [] u % 2 = 1 -> "pillows"
    [] OTHER     -> "unknown"

\* the branches of resolvePlayableUrl that call fetch
NeedsNetwork(u) == Kind(u) \in {"krakenfiles", "imgur"}

\* supportedSources.includes(source) in the track row
Supported(u) == Kind(u) \in {"pillows", "krakenfiles", "imgur"}

\* what the resolver endpoint may answer: a body with the media field, an
\* error (non-2xx, unparsable, success false), a success body without the field
NetOutcomes == {"ok", "error", "nofield"}

\* the providers of getTrackSource
PatternSources == {"pillows", "pixeldrain", "froste", "yetracker", "soundcloud"}
LookupSources == {"krakenfiles", "imgur", "tidal", "qobuz"}
Sources == PatternSources \cup LookupSources \cup {"juicewrldapi", "unknown"}

\* what a resolver endpoint may answer: fetch rejects (transport error,
\* timeout), or a response with a 2xx status or not, whose body is
\*   unparsable   no JSON
\*   null         the JSON value null
\*   failure      an object that reports no success and has no media field
\*   nofield      an object that reports success and has no media field
\*   field        an object that reports success and has the media field
\*   badmanifest  (tidal) an object whose manifest is no base64 JSON
Rejected == [net |-> "reject", ok |-> FALSE, body |-> "none"]
Answer(ok, body) == [net |-> "ok", ok |-> ok, body |-> body]
Bodies(source) ==
  {"unparsable", "null", "failure", "nofield", "field"}
    \cup (IF source = "tidal" THEN {"badmanifest"} ELSE {})
Responses(source) ==
  {Rejected} \cup {Answer(ok, b) : ok \in BOOLEAN, b \in Bodies(source)}

Returned(v) == [value |-> v, threw |-> FALSE]
Thrown == [value |-> Undefined, threw |-> TRUE]

\* the switch of resolvePlayableUrl without its try/catch: source is
\* getTrackSource(normalized), matches says whether the branch's pattern or
\* id extraction matches, resp is what the endpoint answers
ResolveBody(source, u, matches, resp) ==
  IF source \in PatternSources
  THEN Returned(IF matches THEN Playable(u) ELSE Null)
  ELSE IF source = "juicewrldapi" THEN Returned(Playable(u))
  ELSE IF source = "unknown" THEN Returned(Null)
  ELSE IF ~matches THEN Returned(Null)
  ELSE IF resp.net = "reject" THEN Thrown
  ELSE CASE source = "krakenfiles" ->
              \* const data = await res.json(); return data.success ? data.m4a : null
              IF resp.body \in {"unparsable", "null"} THEN Thrown
              ELSE IF resp.body = "field" THEN Returned(Playable(u))
              ELSE IF resp.body = "nofield" THEN Returned(Undefined)
              ELSE Returned(Null)
         [] source = "imgur" ->
              \* if (!res.ok) return null; ... return data.cdnUrl || null
              IF ~resp.ok THEN Returned(Null)
              ELSE IF resp.body \in {"unparsable", "null"} THEN Thrown
              ELSE IF resp.body = "field" THEN Returned(Playable(u))
              ELSE Returned(Null)
         [] source = "tidal" ->
              \* if (!res.ok) return null; if (data?.data?.manifest) { JSON.parse(atob(..)) ... }
              IF ~resp.ok THEN Returned(Null)
              ELSE IF resp.body \in {"unparsable", "badmanifest"} THEN Thrown
              ELSE IF resp.body = "field" THEN Returned(Playable(u))
              ELSE Returned(Null)
         [] source = "qobuz" ->
              \* if (!res.ok) return null; return data?.data?.url || null
              IF ~resp.ok THEN Returned(Null)
              ELSE IF resp.body = "unparsable" THEN Thrown
              ELSE IF resp.body = "field" THEN Returned(Playable(u))
              ELSE Returned(Null)

\* faulty variant of ResolveCaught: the exception reaches the caller
ResolveCaught_Rethrow(r) == r

\* catch (error) { console.error(...); return null; }
ResolveCaught(r) == IF r.threw THEN Returned(Null) ELSE r

\* how the promise of resolvePlayableUrl settles
ResolveOutcome(source, u, matches, resp) ==
  ResolveCaught(ResolveBody(source, u, matches, resp))

\* the three answers the tracker view is checked with
ResponseOf(out) ==
  CASE out = "ok"      -> Answer(TRUE, "field")
    [] out = "nofield" -> Answer(TRUE, "nofield")
    [] OTHER           -> Rejected

\* resolvePlayableUrl(u) when the endpoint answers out
ResolveResult(u, out) ==
  ResolveOutcome(Kind(u), u, TRUE, ResponseOf(out)).value

Truthy(v) == v \notin {Null, Undefined}

\* key = tab ? `${CACHE_KEY_PREFIX}${trackerId}_${tab}` : `${CACHE_KEY_PREFIX}${trackerId}`
\* a string is falsy exactly when it is empty, and so is undefined
CacheKey(id, tab) ==
  IF tab.defined /\ tab.s # ""
  THEN CACHE_KEY_PREFIX \o id \o "_" \o tab.s
  ELSE CACHE_KEY_PREFIX \o id

\* faulty variant of Expired: an entry of exactly the expiry age counts as expired
Expired_Inclusive(t, timestamp) == t - timestamp >= CACHE_EXPIRY

\* Date.now() - entry.timestamp > CACHE_EXPIRY
Expired(t, timestamp) == t - timestamp > CACHE_EXPIRY

\* getCache: the value returned
GetCacheResult(st, key, t) ==
  IF key \notin DOMAIN st THEN NoEntry
  ELSE IF Expired(t, st[key].timestamp) THEN NoEntry
  ELSE st[key]

\* getCache: localStorage after the call
GetCacheStorage(st, key, t) ==
  IF key \in DOMAIN st /\ Expired(t, st[key].timestamp)
  THEN [k \in DOMAIN st \ {key} |-> st[k]]
  ELSE st

\* JSON.parse(JSON.stringify(record)): properties whose value is undefined are dropped
JsonObject(rec) == [u \in {x \in DOMAIN rec : rec[x] # Undefined} |-> rec[u]]

\* setCache: localStorage after the call
SetCacheStorage(st, key, data, resolved, t) ==
  [k \in DOMAIN st \cup {key} |->
     IF k = key
     THEN [data |-> data, timestamp |-> t, resolvedUrls |-> JsonObject(resolved)]
     ELSE st[k]]

IdlePass == [phase |-> "idle", i |-> 0, resolved |-> EmptyMap, flying |-> {},
             results |-> EmptyMap]

\* the positions of urls.slice(i, i + batchSize)
BatchOf(i, n) == {p \in 1..n : i < p /\ p <= i + batchSize}

\* resolvePlayableUrl calls made for the positions ps of the track list
CallsFor(ps, u) == Cardinality({p \in ps : tracks[p] = u})

\* the pass calls resolvePlayableUrl for every member of the batch at i
StartWave(i, resolved) ==
  LET ps == BatchOf(i, Len(tracks))
  IN /\ pass' = [phase |-> "running", i |-> i, resolved |-> resolved,
                 flying |-> ps, results |-> EmptyMap]
     /\ waves' = (IF i = 0 THEN 0 ELSE waves) + 1
     /\ resolveCalls' = [u \in Urls |->
                           (IF i = 0 THEN 0 ELSE resolveCalls[u]) + CallsFor(ps, u)]
     /\ redundant' = redundant \cup
                       {tracks[p] : p \in {q \in ps : /\ NeedsNetwork(tracks[q])
                                                    /\ tracks[q] \in DOMAIN resolvedUrls'}}

\* one initial state per payload of the family: n tracks with distinct URLs,
\* or the same with the last track repeating the URL of the first
Payload(n, dup) ==
  [p \in 1..n |-> IF dup /\ p = n /\ n > 1 THEN 1 ELSE p]

InitViewWith(maxTracks) ==
  /\ \E n \in 0..maxTracks : \E dup \in BOOLEAN : tracks = Payload(n, dup)
  /\ storage = EmptyMap
  /\ now = 0
  /\ ticks = 0
  /\ cached = NoEntry
  /\ evicted = FALSE
  /\ lastOp = "init"
  /\ status = "idle"
  /\ resolvedUrls = EmptyMap
  /\ pass = IdlePass
  /\ waves = 0
  /\ resolveCalls = [u \in Urls |-> 0]
  /\ redundant = {}
  /\ playFlying = {}
  /\ currentTrack = {}

\* the page is opened on the tracker: loadTrackerData(trackerId) up to its
\* first await.  Whatever an earlier page instance had in flight is gone.
LoadTracker ==
  /\ LET key == CacheKey(TrackerId, NoTab)
         hit == GetCacheResult(storage, key, now)
     IN /\ cached' = hit
        /\ storage' = GetCacheStorage(storage, key, now)
        /\ evicted' = (key \in DOMAIN storage /\ key \notin DOMAIN storage')
        /\ IF hit # NoEntry
           THEN /\ resolvedUrls' = hit.resolvedUrls
                /\ status' = "success"
           ELSE /\ resolvedUrls' = EmptyMap
                /\ status' = "loading"
  /\ pass' = IdlePass
  /\ playFlying' = {}
  /\ currentTrack' = {}
  /\ lastOp' = "getCache"
  /\ UNCHANGED <<tracks, now, ticks, waves, resolveCalls, redundant>>

\* loadTrackerData after fetchWithFallback: the fallback state, or the data is
\* display and preloadAllUrls starts its first batch
TrackerFetched(ok) ==
  /\ status = "loading"
  /\ lastOp' = "fetched"
  /\ IF ~ok
     THEN /\ status' = "fallback"
          /\ UNCHANGED <<pass, waves, resolveCalls, redundant, resolvedUrls>>
     ELSE /\ status' = "success"
          /\ resolvedUrls' = resolvedUrls
          /\ IF Len(tracks) = 0
             THEN UNCHANGED <<pass, waves, resolveCalls, redundant>>
             ELSE StartWave(0, EmptyMap)
  /\ UNCHANGED <<tracks, storage, now, ticks, cached, evicted, playFlying, currentTrack>>

\* a resolvePlayableUrl call of the batch settles.  The calls that send no
\* request settle first and in order (they never leave the microtask queue).
SettleResolve(p, out) ==
  /\ pass.phase = "running"
  /\ p \in pass.flying
  /\ IF NeedsNetwork(tracks[p])
     THEN \A q \in pass.flying : NeedsNetwork(tracks[q])
     ELSE /\ out = "ok"
          /\ \A q \in pass.flying : NeedsNetwork(tracks[q]) \/ q >= p
  /\ pass' = [pass EXCEPT
                !.flying = @ \ {p},
                !.results = [q \in DOMAIN @ \cup {p} |->
                               IF q = p THEN ResolveResult(tracks[p], out)
                               ELSE @[q]]]
  /\ lastOp' = "settle"
  /\ UNCHANGED <<tracks, storage, now, ticks, cached, evicted, status, resolvedUrls, waves,
                 resolveCalls, redundant, playFlying, currentTrack>>

\* for (const { url, playable } of results) resolved[url] = playable
RECURSIVE Assign(_, _, _, _)
Assign(resolved, results, p, last) ==
  IF p > last THEN resolved
  ELSE Assign([u \in DOMAIN resolved \cup {tracks[p]} |->
                 IF u = tracks[p] THEN results[p] ELSE resolved[u]],
              results, p + 1, last)

\* Promise.all of the batch is fulfilled: the results are published, then the
\* next batch starts or the pass ends with setCache
WaveEnd ==
  /\ pass.phase = "running"
  /\ pass.flying = {}
  /\ LET n == Len(tracks)
         last == IF pass.i + batchSize < n THEN pass.i + batchSize ELSE n
         resolved == Assign(pass.resolved, pass.results, pass.i + 1, last)
     IN /\ resolvedUrls' = resolved
        /\ IF pass.i + batchSize < n
           THEN /\ StartWave(pass.i + batchSize, resolved)
                /\ UNCHANGED storage
           ELSE /\ storage' = SetCacheStorage(storage, CacheKey(TrackerId, NoTab),
                                              tracks, resolved, now)
                /\ pass' = [IdlePass EXCEPT !.phase = "done", !.resolved = resolved]
                /\ UNCHANGED <<waves, resolveCalls, redundant>>
  /\ lastOp' = "waveEnd"
  /\ UNCHANGED <<tracks, now, ticks, cached, evicted, status, playFlying, currentTrack>>

\* handlePlayTrack(rawTrack, era) on the track at position p, up to its await
PlayTrack(p) ==
  /\ status = "success"
  /\ p \in 1..Len(tracks)
  /\ LET url == tracks[p]
         shownValue == IF url \in DOMAIN resolvedUrls THEN resolvedUrls[url] ELSE Undefined
     IN /\ Truthy(shownValue) \/ Supported(url)
        /\ IF currentTrack = {url}
           THEN /\ lastOp' = "toggle"
                /\ UNCHANGED <<playFlying, redundant>>
           ELSE /\ url \notin playFlying
                /\ Cardinality(playFlying) < MaxPlays
                /\ lastOp' = "play"
                /\ playFlying' = playFlying \cup {url}
                /\ redundant' = IF NeedsNetwork(url) /\ url \in DOMAIN resolvedUrls
                                THEN redundant \cup {url} ELSE redundant
  /\ UNCHANGED <<tracks, storage, now, ticks, cached, evicted, status, resolvedUrls, pass,
                 waves, resolveCalls, currentTrack>>

\* handlePlayTrack after the await
PlaySettle(url, out) ==
  /\ url \in playFlying
  /\ NeedsNetwork(url) \/ out = "ok"
  /\ playFlying' = playFlying \ {url}
  /\ currentTrack' = IF Truthy(ResolveResult(url, out)) THEN {url} ELSE currentTrack
  /\ lastOp' = "playSettle"
  /\ UNCHANGED <<tracks, storage, now, ticks, cached, evicted, status, resolvedUrls, pass,
                 waves, resolveCalls, redundant>>

Hour == 60 * 60 * 1000
TickSizes == {1, Hour, CACHE_EXPIRY}

\* time passes
Tick(d) ==
  /\ ticks < MaxTicks
  /\ now' = now + d
  /\ ticks' = ticks + 1
  /\ lastOp' = "tick"
  /\ UNCHANGED <<tracks, storage, cached, evicted, status, resolvedUrls, pass, waves,
                 resolveCalls, redundant, playFlying, currentTrack>>

NextBatch ==
  \/ LoadTracker
  \/ \E ok \in BOOLEAN : TrackerFetched(ok)
  \/ \E p \in 1..MaxTracks : \E out \in NetOutcomes : SettleResolve(p, out)
  \/ WaveEnd

NextView ==
  \/ NextBatch
  \/ \E p \in 1..MaxTracks : PlayTrack(p)
  \/ \E u \in Urls : \E out \in NetOutcomes : PlaySettle(u, out)
  \/ \E d \in TickSizes : Tick(d)

\* ================================================================ the cache
\* getCache and setCache called with any tracker id and tab, on a storage that
\* may fail and that other code of the origin may write
CacheIds == {"a", "a_b"}
CacheTabs == {NoTab, Tab(""), Tab("b")}
\* a stored string that JSON.parse rejects
Corrupt == [corrupt |-> TRUE]
\* localStorage may throw on access (getItem, setItem, removeItem), setItem
\* may throw for quota, JSON.stringify may throw
GetFaults == {"none", "access"}
SetFaults == {"none", "access", "quota", "serialize"}

\* the try block of getCache
GetCacheBody(st, key, t, fault) ==
  IF fault # "none" THEN [value |-> NoEntry, storage |-> st, raised |-> TRUE]
  ELSE IF key \notin DOMAIN st THEN [value |-> NoEntry, storage |-> st, raised |-> FALSE]
  ELSE IF st[key] = Corrupt THEN [value |-> NoEntry, storage |-> st, raised |-> TRUE]
  ELSE [value |-> GetCacheResult(st, key, t),
        storage |-> GetCacheStorage(st, key, t), raised |-> FALSE]

\* the try block of setCache
SetCacheBody(st, key, data, resolved, t, fault) ==
  IF fault # "none" THEN [value |-> NoEntry, storage |-> st, raised |-> TRUE]
  ELSE [value |-> NoEntry, storage |-> SetCacheStorage(st, key, data, resolved, t),
        raised |-> FALSE]

\* faulty variant of Caught: the exception is passed on
Caught_Rethrow(r) == r

\* catch { return null } of getCache, catch {} of setCache
Caught(r) == IF r.raised THEN [r EXCEPT !.value = NoEntry, !.raised = FALSE] ELSE r

\* the data a fetch of tracker id, tab yields
DataOf(id, tab) == [id |-> id, tab |-> tab]

InitCacheVars ==
  /\ lastArgs = <<"", NoTab>>
  /\ lastFault = "none"
  /\ raised = FALSE

\* getCache(id, tab)
CacheGet(id, tab, fault) ==
  /\ LET key == CacheKey(id, tab)
         r == Caught(GetCacheBody(storage, key, now, fault))
     IN /\ cached' = r.value
        /\ storage' = r.storage
        /\ raised' = r.raised
        /\ evicted' = (key \in DOMAIN storage /\ key \notin DOMAIN storage')
  /\ lastOp' = "cacheGet"
  /\ lastArgs' = <<id, tab>>
  /\ lastFault' = fault
  /\ UNCHANGED <<tracks, now, ticks, status, resolvedUrls, pass, waves,
                 resolveCalls, redundant, playFlying, currentTrack>>

\* setCache(id, data, resolvedUrls, tab) with the data fetched for id, tab
CacheSet(id, tab, fault) ==
  /\ LET r == Caught(SetCacheBody(storage, CacheKey(id, tab), DataOf(id, tab),
                                  EmptyMap, now, fault))
     IN /\ storage' = r.storage
        /\ raised' = r.raised
  /\ lastOp' = "cacheSet"
  /\ lastArgs' = <<id, tab>>
  /\ lastFault' = fault
  /\ UNCHANGED <<tracks, now, ticks, cached, evicted, status, resolvedUrls, pass,
                 waves, resolveCalls, redundant, playFlying, currentTrack>>

\* other code of the origin leaves a string under the key that is no JSON
ForeignWrite(id, tab) ==
  /\ storage' = [k \in DOMAIN storage \cup {CacheKey(id, tab)} |->
                   IF k = CacheKey(id, tab) THEN Corrupt ELSE storage[k]]
  /\ lastOp' = "foreign"
  /\ UNCHANGED <<tracks, now, ticks, cached, evicted, status, resolvedUrls, pass,
                 waves, resolveCalls, redundant, playFlying, currentTrack, cacheVars>>

NextCache ==
  \/ \E id \in CacheIds : \E tab \in CacheTabs : \E f \in GetFaults : CacheGet(id, tab, f)
  \/ \E id \in CacheIds : \E tab \in CacheTabs : \E f \in SetFaults : CacheSet(id, tab, f)
  \/ \E id \in CacheIds : \E tab \in CacheTabs : ForeignWrite(id, tab)

\* ============================================================= the resolver
\* resolvePlayableUrl called for any provider, several calls at a time
TIDAL_APIS ==
  << "https://triton.squid.wtf", "https://tidal.kinoplus.online",
     "https://hund.qqdl.site", "https://katze.qqdl.site",
     "https://maus.qqdl.site", "https://vogel.qqdl.site",
     "https://wolf.qqdl.site" >>

\* the one raw URL the resolver is called with, per provider
RawUrl == 1
NoResponse == [net |-> "none", ok |-> FALSE, body |-> "none"]

\* faulty variant of NextTidalIndex: one mirror is skipped
NextTidalIndex_Skip(i) == (i + 2) % Len(TIDAL_APIS)

\* tidalApiIndex = (tidalApiIndex + 1) % TIDAL_APIS.length
NextTidalIndex(i) == (i + 1) % Len(TIDAL_APIS)

\* selectTidalApi: the base URL returned and the index left behind
SelectTidalApi(i) == [api |-> TIDAL_APIS[i + 1], next |-> NextTidalIndex(i)]

InitResolver ==
  /\ tidalApiIndex = 0
  /\ mirrorLog = <<>>
  /\ resFlying = [src \in LookupSources |-> 0]
  /\ resLast = [source |-> "none", sent |-> FALSE, resp |-> NoResponse,
                value |-> Null, threw |-> FALSE]

\* number of resolvePlayableUrl calls awaiting their fetch
NumFlying(f) == SumOver(f, LookupSources)

\* resolvePlayableUrl(url) up to its first await, or to its return when the
\* branch sends no request
ResolveCall(source, matches) ==
  IF source \in LookupSources /\ matches
  THEN /\ NumFlying(resFlying) < MaxCalls
       /\ source = "tidal" => Len(mirrorLog) < MaxSelections
       /\ resFlying' = [resFlying EXCEPT ![source] = @ + 1]
       /\ IF source = "tidal"
          THEN LET sel == SelectTidalApi(tidalApiIndex)
               IN /\ tidalApiIndex' = sel.next
                  /\ mirrorLog' = Append(mirrorLog, sel.api)
          ELSE UNCHANGED <<tidalApiIndex, mirrorLog>>
       /\ UNCHANGED resLast
  ELSE /\ LET r == ResolveOutcome(source, RawUrl, matches, NoResponse)
          IN resLast' = [source |-> source, sent |-> FALSE, resp |-> NoResponse,
                         value |-> r.value, threw |-> r.threw]
       /\ UNCHANGED <<tidalApiIndex, mirrorLog, resFlying>>

\* the endpoint answers a call of the provider source, or its fetch rejects:
\* the call returns
ResolveSettle(source, resp) ==
  /\ resFlying[source] > 0
  /\ resp \in Responses(source)
  /\ LET r == ResolveOutcome(source, RawUrl, TRUE, resp)
     IN resLast' = [source |-> source, sent |-> TRUE, resp |-> resp,
                    value |-> r.value, threw |-> r.threw]
  /\ resFlying' = [resFlying EXCEPT ![source] = @ - 1]
  /\ UNCHANGED <<tidalApiIndex, mirrorLog>>

NextResolve ==
  \/ \E src \in Sources : \E m \in BOOLEAN : ResolveCall(src, m)
  \/ \E src \in LookupSources : \E resp \in Responses(src) : ResolveSettle(src, resp)

\* ========================================================= loading trackers
\* loadTrackerData called again (another tracker id, another tab) while
\* earlier calls are still at an await
Targets == 1..MaxTargets

\* what a host answers to GET /get/{id}: a 2xx response with a tracker, an
\* opaque redirect, a non-2xx response, a 2xx response whose body is no JSON,
\* a 2xx response whose JSON has no eras or is no object, or fetch rejects
HostAnswers == {"good", "redirect", "non2xx", "unparsable", "noeras", "reject"}

\* fetchWithFallback: the primary host's response when it is ok or an opaque
\* redirect, else whatever the fallback host gives
FetchWithFallback(primary, fallback) ==
  IF primary \in {"non2xx", "reject"} THEN fallback ELSE primary

\* the fallback host is asked only when the primary host failed
FallbackAnswers(primary) ==
  IF primary \in {"non2xx", "reject"} THEN HostAnswers ELSE {"none"}

\* faulty variant of LoadResult: the eras of the body are not looked at
LoadResult_NoErasCheck(final) ==
  IF final \in {"good", "noeras"} THEN "success" ELSE "fallback"

\* loadTrackerData after the await: the status it sets for the response final
LoadResult(final) ==
  CASE final = "redirect"   -> "fallback"  \* res.type === "opaqueredirect"
    [] final = "non2xx"     -> "fallback"  \* !res.ok
    [] final = "reject"     -> "fallback"  \* catch
    [] final = "unparsable" -> "fallback"  \* res.json() throws: catch
    [] final = "noeras"     -> "fallback"  \* !json || ... || no eras
    [] OTHER                -> "success"

InitLoad ==
  /\ loads = <<>>
  /\ display = [status |-> "idle", data |-> 0, resolved |-> 0, progress |-> 0]
  /\ loadCache = {}
  /\ staleWrites = {}

\* the fields among fs that call r writes although a later call has begun
StaleOf(r, fs) == IF r < Len(loads) THEN fs ELSE {}

\* loadTrackerData(id, tab) up to its first await.  kind "id": the effect on
\* [trackerId] after the id of the page changed; kind "tab": handleTabChange,
\* whose buttons are rendered when status is success, for a tab that is not
\* the current one
LoadStart(kind, target) ==
  /\ Len(loads) < MaxLoads
  /\ kind = "tab" => (display.status = "success" /\ display.data # target)
  /\ LET hit == target \in loadCache
         call == [target |-> target, phase |-> IF hit THEN "hit" ELSE "fetching",
                  final |-> "none", result |-> IF hit THEN "success" ELSE "none",
                  wavesLeft |-> 0]
     IN /\ loads' = Append(loads, call)
        /\ display' =
             IF hit
             THEN [status |-> "success", data |-> target, resolved |-> target,
                   progress |-> display.progress]
             ELSE [display EXCEPT !.status = "loading",
                                !.resolved = IF kind = "tab" THEN 0 ELSE @]
  /\ UNCHANGED <<loadCache, staleWrites>>

\* call r resumes after await fetchWithFallback(...) and await res.json():
\* the fallback state, or the data is display and preloadAllUrls starts with
\* nWaves batches (0: a tab that is not preloaded, or no track has a URL)
LoadSettle(r, primary, fallback, nWaves) ==
  /\ r \in 1..Len(loads)
  /\ loads[r].phase = "fetching"
  /\ LET final == FetchWithFallback(primary, fallback)
         res == LoadResult(final)
         ok == res = "success"
     IN /\ loads' = [loads EXCEPT ![r].final = final,
                                  ![r].result = res,
                                  ![r].wavesLeft = IF ok THEN nWaves ELSE 0,
                                  ![r].phase = IF ok /\ nWaves > 0 THEN "resolving"
                                               ELSE "done"]
        /\ display' = [display EXCEPT
                       !.status = res,
                       !.data = IF ok THEN loads[r].target ELSE @,
                       !.progress = IF ok /\ nWaves > 0 THEN loads[r].target ELSE @]
        /\ staleWrites' = staleWrites \cup
             StaleOf(r, {"status"} \cup (IF ok THEN {"data"} ELSE {})
                                  \cup (IF ok /\ nWaves > 0 THEN {"progress"} ELSE {}))
  /\ UNCHANGED loadCache

\* a batch of call r's preloadAllUrls is through: setResolvedUrls,
\* setResolveProgress, and after the last batch setCache
LoadWave(r) ==
  /\ r \in 1..Len(loads)
  /\ loads[r].phase = "resolving"
  /\ loads' = [loads EXCEPT ![r].wavesLeft = @ - 1,
                            ![r].phase = IF loads[r].wavesLeft = 1 THEN "done" ELSE @]
  /\ display' = [display EXCEPT !.resolved = loads[r].target,
                            !.progress = loads[r].target]
  /\ loadCache' = IF loads[r].wavesLeft = 1 THEN loadCache \cup {loads[r].target}
                  ELSE loadCache
  /\ staleWrites' = staleWrites \cup StaleOf(r, {"resolvedUrls", "progress"})

NextLoad ==
  \/ \E kind \in {"id", "tab"} : \E t \in Targets : LoadStart(kind, t)
  \/ \E r \in 1..MaxLoads : \E p \in HostAnswers : \E f \in FallbackAnswers(p) :
       \E n \in 0..MaxWaves : LoadSettle(r, p, f, n)
  \/ \E r \in 1..MaxLoads : LoadWave(r)

\* ============================================================== the player
PlayerUrls == 1..MaxPlayerTracks
NoTrack == [url |-> 0, playableUrl |-> Null]

\* createTrackObject(rawTrack, era, url, playableUrl)
createTrackObject(url, playableUrl) == [url |-> url, playableUrl |-> playableUrl]

\* the tracks of the set us in the order of the page
RECURSIVE PlayableFrom(_, _)
PlayableFrom(us, from) ==
  IF from > MaxPlayerTracks THEN <<>>
  ELSE (IF from \in us
        THEN <<createTrackObject(from, ResolveResult(from, "ok"))>>
        ELSE <<>>) \o PlayableFrom(us, from + 1)

\* the provider's addToQueue(track, playNext = false): the track is inserted
\* at the head of the queue if playNext, appended at its tail otherwise
addToQueue(state, track, playNext) ==
  [state EXCEPT !.queue = IF playNext THEN <<track>> \o @ ELSE Append(@, track)]

\* the provider's clearQueue()
clearQueue(state) == [state EXCEPT !.queue = <<>>]

\* the provider's playTrack(track): the current track is replaced at once
playTrack(state, track) ==
  [state EXCEPT !.currentTrack = track, !.isPlaying = TRUE]

\* the provider's togglePlayPause()
togglePlayPause(state) == [state EXCEPT !.isPlaying = ~@]

\* the provider's playNext(): the head of the queue becomes the current track
playNext(state) ==
  [state EXCEPT !.currentTrack = Head(state.queue), !.queue = Tail(state.queue)]

RECURSIVE AddAll(_, _)
AddAll(state, ts) ==
  IF ts = <<>> THEN state
  ELSE AddAll(addToQueue(state, Head(ts), FALSE), Tail(ts))

\* allPlayableTracks.slice(currentIdx + 1), empty if the URL is not in the list
RemainingTracks(all, url) ==
  LET idx == {k \in 1..Len(all) : all[k].url = url}
  IN IF idx = {} THEN <<>>
     ELSE SubSeq(all, (CHOOSE k \in idx : \A m \in idx : k <= m) + 1, Len(all))

\* the page with the URLs us resolved, nothing played yet
InitPlayerWith(us) ==
  /\ allPlayableTracks = PlayableFrom(us, 1)
  /\ playerState = [currentTrack |-> NoTrack, isPlaying |-> FALSE, queue |-> <<>>]
  /\ handlerCalls = {}
  /\ lastToast = ""
  /\ playRequested = 0

HandlerCall(action, url) == [action |-> action, url |-> url]

\* a handler that awaits a URL resolved without a request goes on before the
\* next event is handled; only the calls that sent a request stay suspended
\* across events
OnlyRequestsPending == \A c \in handlerCalls : NeedsNetwork(c.url)

\* a row's play button or one of its two menu entries is clicked: the handler
\* runs up to its await
HandlerStart(action, url) ==
  /\ Supported(url)
  /\ OnlyRequestsPending
  /\ IF action = "play" /\ playerState.currentTrack.url = url
     THEN /\ playerState' = togglePlayPause(playerState)
          /\ UNCHANGED <<handlerCalls, playRequested>>
     ELSE /\ HandlerCall(action, url) \notin handlerCalls
          /\ Cardinality(handlerCalls) < MaxPlayerCalls
          /\ handlerCalls' = handlerCalls \cup {HandlerCall(action, url)}
          /\ playRequested' = IF action = "play" THEN url ELSE playRequested
          /\ UNCHANGED playerState
  /\ UNCHANGED <<allPlayableTracks, lastToast>>

\* handlePlayTrack after its await
PlayResumed(url, playableUrl) ==
  IF ~Truthy(playableUrl)
  THEN UNCHANGED <<playerState, lastToast>>
  ELSE /\ playerState' =
            AddAll(playTrack(clearQueue(playerState),
                             createTrackObject(url, playableUrl)),
                   RemainingTracks(allPlayableTracks, url))
       /\ UNCHANGED lastToast

\* handlePlayNext after its await
PlayNextResumed(url, playableUrl) ==
  IF ~Truthy(playableUrl)
  THEN lastToast' = "Cannot queue" /\ UNCHANGED playerState
  ELSE /\ playerState' =
            addToQueue(playerState, createTrackObject(url, playableUrl), FALSE)
       /\ lastToast' = "Playing next"

\* handleAddToQueue after its await
AddToQueueResumed(url, playableUrl) ==
  IF ~Truthy(playableUrl)
  THEN lastToast' = "Cannot queue" /\ UNCHANGED playerState
  ELSE /\ playerState' =
            addToQueue(playerState, createTrackObject(url, playableUrl), FALSE)
       /\ lastToast' = "Added to queue"

\* resolvePlayableUrl settles and the handler goes on
HandlerSettle(call, out) ==
  /\ call \in handlerCalls
  /\ NeedsNetwork(call.url) \/ out = "ok"
  /\ Len(playerState.queue) < MaxQueue
  /\ handlerCalls' = handlerCalls \ {call}
  /\ LET playableUrl == ResolveResult(call.url, out)
     IN CASE call.action = "play"       -> PlayResumed(call.url, playableUrl)
          [] call.action = "playNext"   -> PlayNextResumed(call.url, playableUrl)
          [] call.action = "addToQueue" -> AddToQueueResumed(call.url, playableUrl)
  /\ UNCHANGED <<allPlayableTracks, playRequested>>

\* the current track ends or the player's next button is clicked
PlayNextTrack ==
  /\ playerState.queue # <<>>
  /\ OnlyRequestsPending
  /\ playerState' = playNext(playerState)
  /\ UNCHANGED <<allPlayableTracks, handlerCalls, lastToast, playRequested>>

HandlerActions == {"play", "playNext", "addToQueue"}

NextPlayer ==
  \/ \E a \in HandlerActions : \E u \in PlayerUrls : HandlerStart(a, u)
  \/ \E c \in handlerCalls : \E out \in NetOutcomes : HandlerSettle(c, out)
  \/ PlayNextTrack

\* ======================================================= download progress
\* Math.round(n / d) for d > 0
MathRound(n, d) == (2 * n + d) \div (2 * d)

\* Math.round((loaded / total) * 100)
ProgressOf(loaded, total) == MathRound(loaded * 100, total)

InitProgress ==
  /\ download = [phase |-> "idle", total |-> 0, loaded |-> 0]
  /\ itemProgress = 0

\* downloadSingleItem marks the item downloading with progress 0 and fetch
\* answers 2xx; total is the content-length header, 0 if there is none
DownloadStart(contentLength) ==
  /\ download.phase = "idle"
  /\ download' = [phase |-> "reading", total |-> contentLength, loaded |-> 0]
  /\ itemProgress' = 0

\* reader.read() yields a chunk of n bytes; onProgress runs if total is set
ReadChunk(n) ==
  /\ download.phase = "reading"
  /\ download.loaded + n <= MaxBody
  /\ download' = [download EXCEPT !.loaded = @ + n]
  /\ itemProgress' = IF download.total # 0
                     THEN ProgressOf(download.loaded + n, download.total)
                     ELSE itemProgress

\* reader.read() yields done: the item is completed with progress 100
ReadDone ==
  /\ download.phase = "reading"
  /\ download' = [download EXCEPT !.phase = "done"]
  /\ itemProgress' = 100

\* reader.read() rejects: the item goes back to pending or is failed, its
\* progress stays, and a retry starts the download again
ReadFailed ==
  /\ download.phase = "reading"
  /\ download' = [download EXCEPT !.phase = "idle"]
  /\ UNCHANGED itemProgress

NextProgress ==
  \/ \E contentLength \in 0..MaxContentLength : DownloadStart(contentLength)
  \/ \E n \in 1..MaxChunk : ReadChunk(n)
  \/ ReadDone
  \/ ReadFailed

\* ========================================================== the ZIP entries
\* names are sequences of characters
NameChars == {"a", "/", " "}
Names == UNION {[1..n -> NameChars] : n \in 0..MaxNameLen}
Extensions == {<<"m", "p", "3">>, <<"m", "4", "a">>}

\* the class [<>:"/\\|?*]
Reserved == {"<", ">", ":", "\"", "/", "\\", "|", "?", "*"}
Whitespace == {" ", "\t", "\n"}

RECURSIVE DropSpace(_)
DropSpace(s) ==
  IF s # <<>> /\ Head(s) \in Whitespace THEN DropSpace(Tail(s)) ELSE s

\* replace(/\s+/g, " ")
RECURSIVE CollapseSpace(_)
CollapseSpace(s) ==
  IF s = <<>> THEN <<>>
  ELSE IF Head(s) \in Whitespace THEN <<" ">> \o CollapseSpace(DropSpace(s))
  ELSE <<Head(s)>> \o CollapseSpace(Tail(s))

RECURSIVE DropSpaceEnd(_)
DropSpaceEnd(s) ==
  IF s # <<>> /\ s[Len(s)] \in Whitespace
  THEN DropSpaceEnd(SubSeq(s, 1, Len(s) - 1)) ELSE s

\* trim()
Trim(s) == DropSpaceEnd(DropSpace(s))

\* name.replace(/[<>:"/\\|?*]/g, "_").replace(/\s+/g, " ").trim() || "unknown"
sanitizeFilename(name) ==
  LET replaced == [k \in 1..Len(name) |->
                     IF name[k] \in Reserved THEN "_" ELSE name[k]]
      trimmed == Trim(CollapseSpace(replaced))
  IN IF trimmed = <<>> THEN <<"u", "n", "k", "n", "o", "w", "n">> ELSE trimmed

\* `${folderPath}/${fileName}` with fileName = `${sanitized trackName}.${ext}`
ZipPath(eraName, trackName, ext) ==
  sanitizeFilename(eraName) \o <<"/">> \o sanitizeFilename(trackName)
    \o <<".">> \o ext

InitZip ==
  /\ zipFiles = {}
  /\ zipAdded = 0

\* one turn of the loop over job.items for a completed item that has its
\* blob: zip.file(path, blob) sets the entry of that path
ZipAddItem(eraName, trackName, ext) ==
  /\ zipAdded < MaxZipItems
  /\ zipFiles' = zipFiles \cup {ZipPath(eraName, trackName, ext)}
  /\ zipAdded' = zipAdded + 1

\* the assembly ends and another job's assembly starts with new JSZip()
ZipNew ==
  /\ zipAdded > 0
  /\ zipFiles' = {}
  /\ zipAdded' = 0

NextZip ==
  \/ \E eraName, trackName \in Names : \E ext \in Extensions :
       ZipAddItem(eraName, trackName, ext)
  \/ ZipNew

\* ====================================================== URLs written out
\* a URL is a sequence of pieces; the patterns of the code are matched on the
\* pieces, and on the leading characters of a piece where a pattern ends in
\* a character class
UrlTokens ==
  {"https://", "pillows.su", "pillowcase.su", "files.yetracker.org",
   "music.froste.lol", "imgur.gg", "/f/", "/song/", "ab12", "zz"}
AllUrls == UNION {[1..n -> UrlTokens] : n \in 0..MaxUrlLen}

\* the links a tracker carries: scheme, host, path, id
Hosts == {"pillows.su", "pillowcase.su", "files.yetracker.org",
          "music.froste.lol", "imgur.gg", "zz"}
Links ==
  {<<"https://", h, path, id>> : h \in Hosts, path \in {"/f/", "/song/"},
                                 id \in {"ab12", "zz"}}

\* the longest prefix of a piece within [a-f0-9], "" if there is none
HexPrefix(t) ==
  CASE t = "ab12"                -> "ab12"
    [] t = "files.yetracker.org" -> "f"
    [] OTHER                     -> ""

\* the longest prefix of a piece within [a-zA-Z0-9], "" if there is none
AlnumPrefix(t) ==
  CASE t = "ab12"                -> "ab12"
    [] t = "zz"                  -> "zz"
    [] t = "https://"            -> "https"
    [] t = "pillows.su"          -> "pillows"
    [] t = "pillowcase.su"       -> "pillowcase"
    [] t = "files.yetracker.org" -> "files"
    [] t = "music.froste.lol"    -> "music"
    [] t = "imgur.gg"            -> "imgur"
    [] OTHER                     -> ""

\* faulty variant of normalizePillowsUrl: the alias is left as it is
normalizePillowsUrl_Keep(url) == url

\* url.replace(/pillowcase\.su/g, "pillows.su")
normalizePillowsUrl(url) ==
  [k \in 1..Len(url) |-> IF url[k] = "pillowcase.su" THEN "pillows.su" ELSE url[k]]

\* the positions at which the pieces pat occur in url one after the other
Occurrences(url, pat) ==
  {i \in 1..Len(url) : /\ i + Len(pat) - 1 <= Len(url)
                       /\ \A k \in 1..Len(pat) : url[i + k - 1] = pat[k]}

\* getTrackSource(url), its tests in the order of the code
getTrackSource(url) ==
  LET normalized == normalizePillowsUrl(url)
      Has(pat) == Occurrences(normalized, pat) # {}
  IN CASE Has(<<"https://", "pillows.su", "/f/">>) -> "pillows"
       [] Has(<<"https://", "music.froste.lol", "/song/">>) -> "froste"
       [] \E i, j \in 1..Len(normalized) :
            i < j /\ normalized[i] = "https://" /\ normalized[j] = "imgur.gg"
              -> "imgur"
       [] Has(<<"https://", "files.yetracker.org", "/f/">>) -> "yetracker"
       [] OTHER -> "unknown"

\* the two character classes as tables over the pieces
HexClass == [t \in UrlTokens |-> HexPrefix(t)]
AlnumClass == [t \in UrlTokens |-> AlnumPrefix(t)]

\* match[1] of url.match(/<pat>(<class>+)/): the class prefix of the piece
\* after the first occurrence of pat that has one, "" if there is no match
Capture(url, pat, class) ==
  LET hits == {i \in Occurrences(url, pat) :
                 i + Len(pat) <= Len(url) /\ class[url[i + Len(pat)]] # ""}
  IN IF hits = {} THEN ""
     ELSE class[url[(CHOOSE i \in hits : \A m \in hits : i <= m) + Len(pat)]]

\* extractImgurId: /\/f\/([a-zA-Z0-9]+)/, else /\/([a-zA-Z0-9]+)(?:\?|$)/
extractImgurId(url) ==
  LET first == Capture(url, <<"/f/">>, AlnumClass)
      n == Len(url)
  IN IF first # "" THEN first
     ELSE IF n >= 2 /\ url[n] \in {"ab12", "zz"}
                    /\ url[n - 1] \in {"https://", "/f/", "/song/"}
     THEN url[n]
     ELSE ""

ResolvedNull == [isNull |-> TRUE, s |-> <<>>]
ResolvedString(s) == [isNull |-> FALSE, s |-> s]
Fetched(v) == [value |-> v, sent |-> TRUE]
NotFetched(v) == [value |-> v, sent |-> FALSE]

\* faulty variant of Rewritten: the URL is built though the id did not match
Rewritten_Always(prefix, id, suffix) ==
  NotFetched(ResolvedString(<<prefix, id, suffix>>))

\* match ? `${prefix}${match[1]}${suffix}` : null
Rewritten(prefix, id, suffix) ==
  NotFetched(IF id # "" THEN ResolvedString(<<prefix, id, suffix>>)
             ELSE ResolvedNull)

\* resolvePlayableUrl(url) when the lookup endpoint, if asked, answers resp
resolvePlayableUrl(url, resp) ==
  LET normalized == normalizePillowsUrl(url)
      source == getTrackSource(normalized)
  IN CASE source = "pillows" ->
            Rewritten("https://api.pillows.su/api/download/",
                      Capture(normalized, <<"pillows.su", "/f/">>, HexClass), "")
       [] source = "froste" ->
            Rewritten("https://music.froste.lol/song/",
                      Capture(normalized, <<"music.froste.lol", "/song/">>, HexClass),
                      "/download")
       [] source = "yetracker" ->
            Rewritten("https://files.yetracker.org/raw/",
                      Capture(normalized, <<"files.yetracker.org", "/f/">>, AlnumClass),
                      "")
       [] source = "imgur" ->
            IF extractImgurId(normalized) = "" THEN NotFetched(ResolvedNull)
            ELSE Fetched(IF Truthy(ResolveOutcome("imgur", RawUrl, TRUE, resp).value)
                         THEN ResolvedString(<<"cdnUrl">>) ELSE ResolvedNull)
       [] OTHER -> NotFetched(ResolvedNull)

NoLookup == [url |-> <<>>, source |-> "none", value |-> ResolvedNull, sent |-> FALSE]
NoLinks == [u \in {} |-> ResolvedNull]

InitClassify ==
  /\ lookup = NoLookup
  /\ linkMap = NoLinks
  /\ linkRequests = 0

LookupOf(url, resp) ==
  LET r == resolvePlayableUrl(url, resp)
  IN [url |-> url, source |-> getTrackSource(url), value |-> r.value,
      sent |-> r.sent]

ImgurAnswers == {Rejected, Answer(FALSE, "field"), Answer(TRUE, "field"),
                 Answer(TRUE, "nofield")}

\* the endpoint answers only a URL that is looked up
AnswersFor(url) ==
  IF getTrackSource(url) = "imgur" /\ extractImgurId(normalizePillowsUrl(url)) # ""
  THEN ImgurAnswers ELSE {NoResponse}

\* resolvePlayableUrl is called on any URL
ResolveUrl ==
  /\ lookup = NoLookup
  /\ linkMap = NoLinks
  /\ \E url \in AllUrls : \E resp \in AnswersFor(url) :
       lookup' = LookupOf(url, resp)
  /\ UNCHANGED <<linkMap, linkRequests>>

\* preloadAllUrls resolves the next link of a tracker and stores the result:
\* resolved[url] = playable
PreloadLink ==
  /\ lookup = NoLookup \/ linkMap # NoLinks
  /\ Cardinality(DOMAIN linkMap) < MaxLinks
  /\ \E url \in Links \ DOMAIN linkMap : \E resp \in AnswersFor(url) :
       /\ lookup' = LookupOf(url, resp)
       /\ linkMap' = [u \in DOMAIN linkMap \cup {url} |->
                        IF u = url THEN lookup'.value ELSE linkMap[u]]
       /\ linkRequests' = linkRequests + (IF lookup'.sent THEN 1 ELSE 0)

\* the next call, the next tracker
LookupDone ==
  /\ lookup # NoLookup
  /\ lookup' = NoLookup
  /\ linkMap' = NoLinks
  /\ linkRequests' = 0

NextClassify ==
  \/ ResolveUrl
  \/ PreloadLink
  \/ LookupDone

\* =========================================================== share tokens
\* a URL is a sequence of character codes; ' ', '-', '?', '_', 'a', '~'
ShareChars == {32, 45, 63, 95, 97, 126}
ShareUrls == UNION {[1..n -> ShareChars] : n \in 0..MaxShareLen}

\* the base64 alphabet
B64Chars == <<
   "A", "B", "C", "D", "E", "F", "G", "H", "I", "J", "K", "L", "M", "N", "O", "P",
   "Q", "R", "S", "T", "U", "V", "W", "X", "Y", "Z", "a", "b", "c", "d", "e", "f",
   "g", "h", "i", "j", "k", "l", "m", "n", "o", "p", "q", "r", "s", "t", "u", "v",
   "w", "x", "y", "z", "0", "1", "2", "3", "4", "5", "6", "7", "8", "9", "+", "/">>
B64Index(c) == CHOOSE i \in 1..64 : B64Chars[i] = c

\* btoa(bytes): 3 bytes give 4 characters, the last group is padded with =
RECURSIVE btoa(_)
btoa(bytes) ==
  IF bytes = <<>> THEN <<>>
  ELSE LET k == Min(3, Len(bytes))
           b2 == IF k >= 2 THEN bytes[2] ELSE 0
           b3 == IF k >= 3 THEN bytes[3] ELSE 0
           n == bytes[1] * 65536 + b2 * 256 + b3
           c1 == B64Chars[(n \div 262144) + 1]
           c2 == B64Chars[((n \div 4096) % 64) + 1]
           c3 == IF k >= 2 THEN B64Chars[((n \div 64) % 64) + 1] ELSE "="
           c4 == IF k >= 3 THEN B64Chars[(n % 64) + 1] ELSE "="
       IN <<c1, c2, c3, c4>> \o btoa(SubSeq(bytes, k + 1, Len(bytes)))

ReplaceChar(str, from, to) ==
  [k \in 1..Len(str) |-> IF str[k] = from THEN to ELSE str[k]]

\* replace(/=+$/, "")
RECURSIVE StripPadding(_)
StripPadding(str) ==
  IF str # <<>> /\ str[Len(str)] = "="
  THEN StripPadding(SubSeq(str, 1, Len(str) - 1)) ELSE str

\* btoa(url).replace(/\+/g, "-").replace(/\//g, "_").replace(/=+$/, "")
encodeTrackForUrl(url) ==
  StripPadding(ReplaceChar(ReplaceChar(btoa(url), "+", "-"), "/", "_"))

\* the bytes of the base64 characters cs, all of the alphabet; the bits
\* left over in the last group are dropped
RECURSIVE B64Bytes(_)
B64Bytes(cs) ==
  IF Len(cs) < 2 THEN <<>>
  ELSE LET k == Min(4, Len(cs))
           v(i) == IF i <= k THEN B64Index(cs[i]) - 1 ELSE 0
           n == v(1) * 262144 + v(2) * 4096 + v(3) * 64 + v(4)
           b1 == n \div 65536
           b2 == (n \div 256) % 256
           b3 == n % 256
       IN (IF k = 2 THEN <<b1>> ELSE IF k = 3 THEN <<b1, b2>> ELSE <<b1, b2, b3>>)
            \o B64Bytes(SubSeq(cs, k + 1, Len(cs)))

SeqOf(c, n) == [k \in 1..n |-> c]
Threw == [threw |-> TRUE, bytes |-> <<>>]

\* atob(str): if the length is a multiple of 4, up to two = are taken off the
\* end; what is left must be of the alphabet and not of length 1 modulo 4
atob(str) ==
  LET n == Len(str)
      pads == IF n % 4 # 0 \/ n = 0 \/ str[n] # "=" THEN 0
              ELSE IF str[n - 1] = "=" THEN 2 ELSE 1
      data == SubSeq(str, 1, n - pads)
  IN IF Len(data) % 4 = 1 THEN Threw
     ELSE IF \E k \in 1..Len(data) : \A i \in 1..64 : B64Chars[i] # data[k]
     THEN Threw
     ELSE [threw |-> FALSE, bytes |-> B64Bytes(data)]

\* faulty variant of FromUrlSafe: the _ is not turned back into /
FromUrlSafe_NoSlash(encoded) == ReplaceChar(encoded, "-", "+")

\* encoded.replace(/-/g, "+").replace(/_/g, "/")
FromUrlSafe(encoded) == ReplaceChar(ReplaceChar(encoded, "-", "+"), "_", "/")

DecodedNull == [isNull |-> TRUE, s |-> <<>>]

\* decodeTrackFromUrl(encoded): atob of the padded string, null if it throws
decodeTrackFromUrl(encoded) ==
  LET base64 == FromUrlSafe(encoded)
      padding == (4 - (Len(base64) % 4)) % 4
      r == atob(base64 \o SeqOf("=", padding))
  IN IF r.threw THEN DecodedNull ELSE [isNull |-> FALSE, s |-> r.bytes]

NotDecoded == [isNull |-> TRUE, s |-> <<0>>]

InitShare ==
  /\ shareUrl = <<>>
  /\ shareToken = <<>>
  /\ shareDecoded = NotDecoded

\* the share link of a track is built
ShareTrack ==
  /\ shareDecoded = NotDecoded
  /\ shareToken = <<>>
  /\ \E url \in ShareUrls :
       /\ shareUrl' = url
       /\ shareToken' = encodeTrackForUrl(url)
  /\ UNCHANGED shareDecoded

\* the page is opened with the link: the track parameter is decoded
OpenShared ==
  /\ shareDecoded = NotDecoded
  /\ shareDecoded' = decodeTrackFromUrl(shareToken)
  /\ UNCHANGED <<shareUrl, shareToken>>

\* the page is left
ShareDone ==
  /\ shareDecoded # NotDecoded
  /\ shareUrl' = <<>>
  /\ shareToken' = <<>>
  /\ shareDecoded' = NotDecoded

NextShare == ShareTrack \/ OpenShared \/ ShareDone

\* ======================================================== audio made ahead
PRELOAD_COUNT == 3

\* the playable URLs of queue entries; 0 stands for a missing playableUrl
PreloadUrls == 0..4
Queues == UNION {[1..n -> PreloadUrls] : n \in 0..MaxPreloadQueue}

\* queue.slice(0, PRELOAD_COUNT).map(t => t.playableUrl).filter(url => !!url)
urlsToPreload(queue) ==
  LET n == IF Len(queue) < PRELOAD_COUNT THEN Len(queue) ELSE PRELOAD_COUNT
  IN SelectSeq(SubSeq(queue, 1, n), LAMBDA url : url # 0)

Includes(seq, x) == \E k \in 1..Len(seq) : seq[k] = x

\* faulty variant of Evict: the entries that left the window stay in the map
Evict_Kept(preloaded, urls) == preloaded

\* currentPreloaded.delete(url) for every url that is not in urlsToPreload
Evict(preloaded, urls) ==
  [url \in {u \in DOMAIN preloaded : Includes(urls, u)} |-> preloaded[url]]

\* audio.src = "" for every element whose url is not in urlsToPreload
ReleaseSrc(preloaded, src, urls) ==
  [id \in DOMAIN src |->
     IF \E u \in DOMAIN preloaded : preloaded[u] = id /\ ~Includes(urls, u)
     THEN 0 ELSE src[id]]

\* the second loop: a new Audio() for every url the map does not have
RECURSIVE Instantiate(_, _, _)
Instantiate(st, urls, k) ==
  IF k > Len(urls) THEN st
  ELSE IF urls[k] \in DOMAIN st.map THEN Instantiate(st, urls, k + 1)
  ELSE Instantiate([map |-> st.map @@ (urls[k] :> Len(st.src) + 1),
                    src |-> Append(st.src, urls[k])], urls, k + 1)

preloadNextTracks(preloaded, src, queue) ==
  LET urls == urlsToPreload(queue)
  IN Instantiate([map |-> Evict(preloaded, urls),
                  src |-> ReleaseSrc(preloaded, src, urls)], urls, 1)

\* the component mounts with an empty queue; the effect runs after the first
\* render
InitPreload ==
  /\ preloadQueue = <<>>
  /\ preloadedAudio = <<>>
  /\ audioSrc = <<>>
  /\ effectPending = TRUE
  /\ queueChanges = 0
  /\ preloadMounted = TRUE

\* a render with a new playerState.queue
QueueChange ==
  /\ preloadMounted
  /\ ~effectPending
  /\ queueChanges < MaxQueueChanges
  /\ \E queue \in Queues :
       /\ queue # preloadQueue
       /\ preloadQueue' = queue
  /\ effectPending' = TRUE
  /\ queueChanges' = queueChanges + 1
  /\ UNCHANGED <<preloadedAudio, audioSrc, preloadMounted>>

\* useEffect(() => preloadNextTracks(playerState.queue), [playerState.queue])
PreloadEffect ==
  /\ preloadMounted
  /\ effectPending
  /\ LET st == preloadNextTracks(preloadedAudio, audioSrc, preloadQueue)
     IN /\ preloadedAudio' = st.map
        /\ audioSrc' = st.src
  /\ effectPending' = FALSE
  /\ UNCHANGED <<preloadQueue, queueChanges, preloadMounted>>

\* the cleanup on unmount: every element released, the map cleared
PreloadCleanup ==
  /\ preloadMounted
  /\ ~effectPending
  /\ audioSrc' = [id \in DOMAIN audioSrc |->
                   IF \E u \in DOMAIN preloadedAudio : preloadedAudio[u] = id
                   THEN 0 ELSE audioSrc[id]]
  /\ preloadedAudio' = <<>>
  /\ preloadMounted' = FALSE
  /\ UNCHANGED <<preloadQueue, effectPending, queueChanges>>

NextPreload == QueueChange \/ PreloadEffect \/ PreloadCleanup

\* ------------------------------------------------------------ specifications
InitRest == InitCacheVars /\ InitResolver /\ InitLoad /\ InitJobs
  /\ InitProgress
  /\ InitZip
  /\ InitClassify
  /\ InitShare
  /\ InitPreload
InitMore == InitRest /\ InitPlayerWith({})

\* the download manager, the view left idle
Init == InitDM /\ InitViewWith(0) /\ InitMore
Next == NextDM /\ UNCHANGED <<viewVars, moreVars>>
Spec == Init /\ [][Next]_vars

\* the batch resolver on trackers of up to MaxTracks tracks
InitBatch == InitDM /\ InitViewWith(MaxTracks) /\ InitMore
NextBatchOnly == NextBatch /\ UNCHANGED <<dmVars, moreVars>>
SpecBatch == InitBatch /\ [][NextBatchOnly]_vars

\* the whole tracker view on a small tracker, with the clock
InitView == InitDM /\ InitViewWith(MaxViewTracks) /\ InitMore
NextViewOnly == NextView /\ UNCHANGED <<dmVars, moreVars>>
SpecView == InitView /\ [][NextViewOnly]_vars

\* the cache functions alone
NextCacheOnly ==
  NextCache /\ UNCHANGED <<dmVars, resolverVars, loadVars, jobsVars, playerVars,
                 progressVars,
                 zipVars,
                 classifyVars,
                 shareVars,
                 preloadVars>>
SpecCache == Init /\ [][NextCacheOnly]_vars

\* the resolver alone
NextResolveOnly ==
  NextResolve
    /\ UNCHANGED <<dmVars, viewVars, cacheVars, loadVars, jobsVars, playerVars,
                 progressVars,
                 zipVars,
                 classifyVars,
                 shareVars,
                 preloadVars>>
SpecResolve == Init /\ [][NextResolveOnly]_vars

\* tracker loads alone
NextLoadOnly ==
  NextLoad
    /\ UNCHANGED <<dmVars, viewVars, cacheVars, resolverVars, jobsVars, playerVars,
                 progressVars,
                 zipVars,
                 classifyVars,
                 shareVars,
                 preloadVars>>
SpecLoad == Init /\ [][NextLoadOnly]_vars

\* the download manager with its dismiss and clear buttons and its teardown
NextJobsOnly ==
  NextJobs
    /\ UNCHANGED <<viewVars, cacheVars, resolverVars, loadVars, playerVars,
                 progressVars,
                 zipVars,
                 classifyVars,
                 shareVars,
                 preloadVars>>
SpecJobs == Init /\ [][NextJobsOnly]_vars

\* the player driven from the tracker view
NextPlayerOnly ==
  NextPlayer
    /\ UNCHANGED <<dmVars, viewVars, cacheVars, resolverVars, loadVars, jobsVars,
                 progressVars,
                 zipVars,
                 classifyVars,
                 shareVars,
                 preloadVars>>
InitPlayer ==
  /\ InitDM /\ InitViewWith(0) /\ InitRest
  /\ \E us \in SUBSET PlayerUrls : InitPlayerWith(us)
SpecPlayer == InitPlayer /\ [][NextPlayerOnly]_vars

\* one download and its progress reports
NextProgressOnly ==
  NextProgress
    /\ UNCHANGED <<dmVars, viewVars, cacheVars, resolverVars, loadVars,
                   jobsVars, playerVars,
                 zipVars,
                 classifyVars,
                 shareVars,
                 preloadVars>>
SpecProgress == Init /\ [][NextProgressOnly]_vars

\* the files of one archive
NextZipOnly ==
  NextZip
    /\ UNCHANGED <<dmVars, viewVars, cacheVars, resolverVars, loadVars,
                   jobsVars, playerVars, progressVars,
                 classifyVars,
                 shareVars,
                 preloadVars>>
SpecZip == Init /\ [][NextZipOnly]_vars

\* the classifier and the resolver on URLs written out
NextClassifyOnly ==
  NextClassify
    /\ UNCHANGED <<dmVars, viewVars, cacheVars, resolverVars, loadVars,
                   jobsVars, playerVars, progressVars, zipVars,
                 shareVars,
                 preloadVars>>
SpecClassify == Init /\ [][NextClassifyOnly]_vars

\* share links
NextShareOnly ==
  NextShare
    /\ UNCHANGED <<dmVars, viewVars, cacheVars, resolverVars, loadVars,
                   jobsVars, playerVars, progressVars, zipVars, classifyVars,
                 preloadVars>>
SpecShare == Init /\ [][NextShareOnly]_vars

\* audio made ahead of playback
NextPreloadOnly ==
  NextPreload
    /\ UNCHANGED <<dmVars, viewVars, cacheVars, resolverVars, loadVars,
                   jobsVars, playerVars, progressVars, zipVars, classifyVars,
                   shareVars>>
SpecPreload == Init /\ [][NextPreloadOnly]_vars

\* ================================================================ properties
AllItems == {it \in JobIds \X ItemIds : HasItem(jobs, it[1], it[2])}
ItemOf(it) == jobs[it[1]].items[it[2]]
NumDownloading ==
  Cardinality({it \in AllItems : ItemOf(it).status = "downloading"})
\* no failure updater for the item waits in the update list
Settled(it) ==
  \A k \in 1..Len(pending) :
    ~(pending[k].t = "failure" /\ pending[k].j = it[1] /\ pending[k].i = it[2])
\* no updater for the job waits in the update list
JobSettled(j) == \A k \in 1..Len(pending) : pending[k].j # j

\* C1: the number of item downloads in flight at the same time (the counter
\* activeDownloadsRef, the downloadSingleItem calls awaiting their fetch, and the
\* items display as downloading) never exceeds CONCURRENT_DOWNLOADS, whatever the
\* number of jobs and the interleaving of starts, completions and retries.
C1_ConcurrencyCap ==
  /\ activeDownloads <= CONCURRENT_DOWNLOADS
  /\ Cardinality(inflight) <= CONCURRENT_DOWNLOADS
  /\ NumDownloading <= CONCURRENT_DOWNLOADS

\* C1 witness: the cap is reached while a further item waits in the queue
C1_Witness ==
  /\ activeDownloads = CONCURRENT_DOWNLOADS
  /\ Cardinality(inflight) = CONCURRENT_DOWNLOADS
  /\ downloadQueue # <<>>

\* C2 as stated: an item whose fetch has failed exactly MAX_RETRY_ATTEMPTS
\* times (its failure updaters run) has status failed.
C2_FailedAfterTwoFailures ==
  \A it \in AllItems :
    (failCount[it] = MAX_RETRY_ATTEMPTS /\ Settled(it)) => ItemOf(it).status = "failed"

\* C2 amended: an item is re-enqueued at most MAX_RETRY_ATTEMPTS times (it is
\* put in the queue at most 1 + MAX_RETRY_ATTEMPTS times), and it has status
\* failed exactly when its fetch has failed MAX_RETRY_ATTEMPTS + 1 times.
C2_FailedAfterThreeFailures ==
  \A it \in AllItems :
    /\ pushCount[it] <= 1 + MAX_RETRY_ATTEMPTS
    /\ failCount[it] <= 1 + MAX_RETRY_ATTEMPTS
    /\ ItemOf(it).status = "failed" => failCount[it] = 1 + MAX_RETRY_ATTEMPTS
    /\ (Settled(it) /\ failCount[it] = 1 + MAX_RETRY_ATTEMPTS)
         => ItemOf(it).status = "failed"

\* C2 witness: an item failed for good after its third failed fetch
C2_Witness ==
  \E it \in AllItems :
    /\ ItemOf(it).status = "failed"
    /\ failCount[it] = 1 + MAX_RETRY_ATTEMPTS
    /\ pushCount[it] = 1 + MAX_RETRY_ATTEMPTS

\* C3 as stated, in the form a finite run refutes: when no download is in flight
\* and no updater waits, nothing is left waiting, that is the queue is empty
\* and every item of every started job is completed or failed.
C3_NoItemWaitsForever ==
  (inflight = {} /\ pending = <<>>) =>
     /\ downloadQueue = <<>>
     /\ \A it \in AllItems : ItemOf(it).status \in {"completed", "failed"}

Oversize(j) == fetchedBytes[j] > MAX_ZIP_SIZE

\* C5: a job whose completed files total more than MAX_ZIP_SIZE never gets a
\* ZIP nor an object URL and never has status completed; once its assembly has
\* ended (and the updaters for it have run) its status is failed.
C5_OversizeZipAborted ==
  \A j \in DOMAIN jobs :
    Oversize(j) =>
      /\ jobs[j].status # "completed"
      /\ ~jobs[j].zipBlob
      /\ ~jobs[j].downloadUrl
      /\ j \notin downloadUrls
      /\ (j \in zipEnded /\ JobSettled(j)) => jobs[j].status = "failed"

\* C5 witness: every item of the job was downloaded, and the job is failed
C5_Witness ==
  \E j \in DOMAIN jobs :
    /\ Oversize(j)
    /\ NumCompleted(jobs[j]) = Len(jobs[j].items)
    /\ j \in zipEnded
    /\ jobs[j].status = "failed"

\* one updater's change of one item
ItemStepOk(a, b) ==
  \/ a = b
  \/ a.status = "pending" /\ b.status = "downloading" /\ b.retryCount = a.retryCount
  \/ a.status = "downloading" /\ b.status = "completed" /\ b.retryCount = a.retryCount
  \/ /\ a.status = "downloading" /\ b.status = "pending"
     /\ a.retryCount < MAX_RETRY_ATTEMPTS
     /\ b.retryCount = a.retryCount + 1
  \/ a.status = "downloading" /\ b.status = "failed" /\ b.retryCount = a.retryCount

StepOk(js1, js2) ==
  \A j \in DOMAIN js2 :
    IF j \in DOMAIN js1
    THEN /\ DOMAIN js2[j].items = DOMAIN js1[j].items
         /\ \A i \in DOMAIN js1[j].items : ItemStepOk(js1[j].items[i], js2[j].items[i])
    ELSE \A i \in DOMAIN js2[j].items : js2[j].items[i] = NewItem

\* every updater of the list pend, run in order from js, makes allowed steps
RECURSIVE ChainOk(_, _)
ChainOk(js, pend) ==
  \/ pend = <<>>
  \/ /\ StepOk(js, RunUpdater(js, Head(pend)))
     /\ ChainOk(RunUpdater(js, Head(pend)), Tail(pend))

\* C6: every updater changes an item's status only along pending->downloading,
\* downloading->completed, downloading->pending (retryCount + 1, only while
\* retryCount < 2) and downloading->failed; an item that is completed or failed
\* never changes again; retryCount never exceeds MAX_RETRY_ATTEMPTS.
C6_ItemStateMachine ==
  [][ /\ ChainOk(jobs, pending)
      /\ \A j \in DOMAIN jobs : \A i \in DOMAIN jobs[j].items :
           jobs[j].items[i].status \in {"completed", "failed"}
             => (j \in DOMAIN jobs' /\ jobs'[j].items[i] = jobs[j].items[i])
      /\ \A j \in DOMAIN jobs' : \A i \in DOMAIN jobs'[j].items :
           jobs'[j].items[i].retryCount <= MAX_RETRY_ATTEMPTS ]_vars

\* C6 witness: an item went through both retries and is failed, another one
\* of the same job is completed
C6_Witness ==
  \E j \in DOMAIN jobs : \E i, k \in DOMAIN jobs[j].items :
    /\ jobs[j].items[i] = [status |-> "failed", retryCount |-> MAX_RETRY_ATTEMPTS]
    /\ jobs[j].items[k].status = "completed"

\* the track list holds no URL twice
UniqueTracks == \A p, q \in 1..Len(tracks) : tracks[p] = tracks[q] => p = q
CeilDiv(n, d) == (n + d - 1) \div d

\* the part of C7 about the waves and the number of entries: at most batchSize
\* resolutions are in flight, all of them of the current batch; the running
\* wave is wave i / batchSize + 1; a finished pass over n distinct URLs has
\* started ceil(n / batchSize) waves and published n entries.
BatchWavesOk ==
  /\ Cardinality(pass.flying) <= batchSize
  /\ pass.flying \subseteq BatchOf(pass.i, Len(tracks))
  /\ pass.phase = "running" => waves = pass.i \div batchSize + 1
  /\ (pass.phase = "done" /\ UniqueTracks) =>
       /\ waves = CeilDiv(Len(tracks), batchSize)
       /\ Cardinality(DOMAIN resolvedUrls) = Len(tracks)

\* C7: batch resolution of N unique URLs runs ceil(N/10) waves one after the
\* other, with at most 10 resolutions in flight, and on completion the resolved
\* map has N entries, each a string or null.
C7_BatchWaves ==
  /\ BatchWavesOk
  /\ (pass.phase = "done" /\ UniqueTracks) =>
       \A u \in DOMAIN resolvedUrls : resolvedUrls[u].k \in {"string", "null"}

\* C8: within one batch-resolution pass resolvePlayableUrl is called at most
\* once per distinct raw URL.
C8_ResolvedOnce == \A u \in Urls : resolveCalls[u] <= 1

\* C9: no resolver request is sent for a raw URL while the resolved map holds
\* an entry for it.
C9_NoRedundantRequest == redundant = {}

\* C10: a getCache call on a stored entry older than CACHE_EXPIRY returns null
\* and removes the key; on an entry not older than that it returns the stored
\* entry and leaves the storage as it was.
C10_GetCacheExpiry ==
  [][ LET key == CacheKey(TrackerId, NoTab)
      IN (lastOp' = "getCache" /\ key \in DOMAIN storage) =>
           IF now - storage[key].timestamp > CACHE_EXPIRY
           THEN cached' = NoEntry /\ key \notin DOMAIN storage'
           ELSE cached' = storage[key] /\ storage' = storage ]_vars

\* C10 witness: an entry written at time 0 was read at 0 + 25h, found expired
\* and removed
C10_Witness ==
  /\ lastOp = "getCache"
  /\ now = CACHE_EXPIRY + Hour
  /\ evicted
  /\ cached = NoEntry
  /\ CacheKey(TrackerId, NoTab) \notin DOMAIN storage

\* C11: a getCache call that returns an entry returns the data written for its
\* own (trackerId, tab): a write for another pair never changes what it returns.
C11_KeysDistinct ==
  (lastOp = "cacheGet" /\ cached # NoEntry) =>
     cached.data = DataOf(lastArgs[1], lastArgs[2])

\* C12: getCache and setCache never raise an error to their caller; getCache
\* returns null when the storage access fails or the stored string cannot be
\* parsed; a setCache that fails leaves the storage as it was.
C12_CacheBestEffort ==
  [][ LET key == CacheKey(lastArgs'[1], lastArgs'[2])
      IN /\ lastOp' \in {"cacheGet", "cacheSet"} => ~raised'
         /\ (/\ lastOp' = "cacheGet"
             /\ \/ lastFault' # "none"
                \/ (key \in DOMAIN storage /\ storage[key] = Corrupt))
              => (cached' = NoEntry /\ storage' = storage)
         /\ (lastOp' = "cacheSet" /\ lastFault' # "none") => storage' = storage ]_vars

\* C12 witness: a setCache that hit the quota left the entry stored before
C12_Witness ==
  /\ lastOp = "cacheSet"
  /\ lastFault = "quota"
  /\ ~raised
  /\ CacheKey(lastArgs[1], lastArgs[2]) \in DOMAIN storage
  /\ storage[CacheKey(lastArgs[1], lastArgs[2])] # Corrupt

\* the last call failed in its network call or in parsing what came back
ResolveFailed ==
  /\ resLast.sent
  /\ \/ resLast.resp.net = "reject"
     \/ resLast.resp.body \in {"unparsable", "badmanifest"}

\* C13: resolvePlayableUrl never throws to its caller, and when its network
\* call fails or the response cannot be parsed its promise fulfils with null.
C13_ResolveNeverThrows ==
  /\ ~resLast.threw
  /\ ResolveFailed => resLast.value = Null

\* C13 witness: a tidal lookup whose manifest could not be decoded gave null
C13_Witness ==
  /\ resLast.source = "tidal"
  /\ resLast.resp = Answer(TRUE, "badmanifest")
  /\ resLast.value = Null
  /\ ~resLast.threw

\* C14: a lookup provider's call returns a string or null, and null whenever
\* the endpoint answers with a non-2xx status, the body cannot be parsed or
\* the media URL field is absent.
C14_LookupStringOrNull ==
  (resLast.sent /\ resLast.source \in LookupSources) =>
     /\ resLast.value.k \in {"string", "null"}
     /\ (\/ resLast.resp.net = "reject"
         \/ ~resLast.resp.ok
         \/ resLast.resp.body # "field") => resLast.value = Null

\* position of a base URL in the pool, from 0
PoolIndex(api) == CHOOSE i \in 0..6 : TIDAL_APIS[i + 1] = api

\* C20: the index stays in 0..6, each selection returns the mirror after the
\* one the previous selection returned, wrapping at the end, and any 7
\* consecutive selections use every mirror of the pool once.
C20_RoundRobin ==
  /\ tidalApiIndex \in 0..6
  /\ \A k \in 1..(Len(mirrorLog) - 1) :
       PoolIndex(mirrorLog[k + 1]) = (PoolIndex(mirrorLog[k]) + 1) % 7
  /\ \A k \in 1..(Len(mirrorLog) - 6) :
       {mirrorLog[m] : m \in k..(k + 6)} = {TIDAL_APIS[i] : i \in 1..7}

\* C20 witness: the pool was gone through once and wrapped, with two tidal
\* resolutions in flight together
C20_Witness ==
  /\ Len(mirrorLog) = 8
  /\ mirrorLog[8] = mirrorLog[1]
  /\ resFlying["tidal"] = 2

\* C15: nothing an earlier load produced is written into the displayed data,
\* resolved-URL map, progress or status after a later load was requested.
C15_NoStaleWrites == staleWrites = {}

C17_NoUrlWithoutJob ==
  downloadUrls \subseteq (IF mounted THEN DOMAIN jobs ELSE {})

\* the clear updater run on js keeps exactly the active jobs, each unchanged
ClearStepOk(js, js1) ==
  /\ DOMAIN js1 = {j \in DOMAIN js : js[j].status = "active"}
  /\ DOMAIN js \ DOMAIN js1 =
       {j \in DOMAIN js : js[j].status \in {"completed", "failed"}}
  /\ \A j \in DOMAIN js1 : js1[j] = js[j]

\* every updater of the list pend, run in order from js, removes a job only
\* if it is a dismiss of that job or a clear, and a clear removes the right jobs
RECURSIVE RemovalOk(_, _)
RemovalOk(js, pend) ==
  \/ pend = <<>>
  \/ LET u == Head(pend)
         js1 == RunUpdater(js, u)
     IN /\ CASE u.t = "clear"   -> ClearStepOk(js, js1)
             [] u.t = "dismiss" -> DOMAIN js \ DOMAIN js1 \subseteq {u.j}
             [] OTHER           -> DOMAIN js \subseteq DOMAIN js1
        /\ RemovalOk(js1, Tail(pend))

\* the step is a call of clearCompleted
ClearCalled ==
  /\ Len(pending') = Len(pending) + 1
  /\ pending'[Len(pending')].t = "clear"

\* C18: a job leaves the list only by the updater of dismissJob(jobId) or of
\* clearCompleted; that of clearCompleted removes exactly the completed and
\* failed jobs and keeps every active job with its items as it was; the call
\* of clearCompleted leaves the job list, the download queue, the in-flight
\* counter and the downloads under way unchanged.
C18_RemovalOnlyByUser ==
  [][ /\ RemovalOk(jobs, pending)
      /\ \A j \in DOMAIN jobs \ DOMAIN jobs' :
           gone'[j] \in {"clear", "dismiss"}
      /\ ClearCalled =>
           UNCHANGED <<jobs, downloadQueue, activeDownloads, inflight>> ]_vars

\* C18 witness: clearCompleted removed a finished job while another job, still
\* active with a download under way, stayed in the list
C18_Witness ==
  /\ \E j \in JobIds : gone[j] = "clear" /\ j \notin DOMAIN jobs
  /\ \E k \in DOMAIN jobs : jobs[k].status = "active" /\ activeDownloads > 0

\* C19: a handlePlayNext call that queued its track ("Playing next") put it
\* at the head of the queue, a handleAddToQueue call that queued its track
\* ("Added to queue") put it at the tail, and neither changed the current track.
C19_PlayNextAtHead ==
  [][ \A c \in handlerCalls \ handlerCalls' :
        c.action \in {"playNext", "addToQueue"} =>
          /\ playerState'.currentTrack = playerState.currentTrack
          /\ (c.action = "playNext" /\ lastToast' = "Playing next") =>
               /\ playerState'.queue # <<>>
               /\ Head(playerState'.queue).url = c.url
               /\ Tail(playerState'.queue) = playerState.queue
          /\ (c.action = "addToQueue" /\ lastToast' = "Added to queue") =>
               /\ Len(playerState'.queue) = Len(playerState.queue) + 1
               /\ playerState'.queue[Len(playerState'.queue)].url = c.url
               /\ SubSeq(playerState'.queue, 1, Len(playerState.queue))
                    = playerState.queue ]_vars

\* C25: the in-flight counter is never negative and equals the number of
\* download attempts under way, so it is 0 whenever none is under way.
C25_CounterMatchesInFlight ==
  /\ activeDownloads >= 0
  /\ activeDownloads = Cardinality(inflight)

\* C25 witness: an item failed for good after its retries, another download
\* succeeded, and no attempt is under way: the counter is back at 0
C25_Witness ==
  /\ activeDownloads = 0
  /\ inflight = {}
  /\ \E it \in JobIds \X ItemIds : failCount[it] = MAX_RETRY_ATTEMPTS + 1
  /\ \E j \in JobIds : fetchedBytes[j] > 0

C29_CompletedIsFinal ==
  [][ \A j \in DOMAIN jobs :
        jobs[j].status = "completed" =>
          (j \in DOMAIN jobs' => jobs'[j].status = "completed") ]_vars

\* C24: the progress of a download item is an integer within 0..100.
C24_ProgressInRange == itemProgress \in 0..100

\* C26: the archive holds one file per completed item that was put into it.
C26_OneFilePerItem == Cardinality(zipFiles) = zipAdded

ProviderTags == {"pillows", "froste", "imgur", "yetracker", "unknown"}

\* the same URL written with pillows.su
WrittenWithPillowsSu(url) ==
  [k \in 1..Len(url) |-> IF url[k] = "pillowcase.su" THEN "pillows.su" ELSE url[k]]

ExpectedOfLink(link) ==
  LET host == IF link[2] = "pillowcase.su" THEN "pillows.su" ELSE link[2]
      hex == link[4] = "ab12"
  IN CASE host = "pillows.su" /\ link[3] = "/f/" ->
            IF hex THEN ResolvedString(<<"https://api.pillows.su/api/download/",
                                         link[4], "">>)
            ELSE ResolvedNull
       [] host = "music.froste.lol" /\ link[3] = "/song/" ->
            IF hex THEN ResolvedString(<<"https://music.froste.lol/song/",
                                         link[4], "/download">>)
            ELSE ResolvedNull
       [] host = "files.yetracker.org" /\ link[3] = "/f/" ->
            ResolvedString(<<"https://files.yetracker.org/raw/", link[4], "">>)
       [] OTHER -> ResolvedNull

\* C22: a URL classified unknown resolves to null and a URL of pillows,
\* froste or yetracker to the rewritten URL if its id pattern matches and to
\* null otherwise, without a fetch call; a pass over a pillows.su link with a
\* matching id and an unknown link yields 2 entries, exactly 1 of them not
\* null, and no request.
C22_PatternOnlyResolution ==
  /\ lookup.source = "unknown" => lookup.value = ResolvedNull /\ ~lookup.sent
  /\ lookup.source \in {"pillows", "froste", "yetracker"} =>
       /\ ~lookup.sent
       /\ lookup.value.isNull \/ lookup.value.s[2] # ""
       /\ lookup.url \in Links => lookup.value = ExpectedOfLink(lookup.url)
  /\ \A u \in DOMAIN linkMap :
       getTrackSource(u) \in {"pillows", "froste", "yetracker", "unknown"}
         => linkMap[u] = ExpectedOfLink(u)
  /\ \A u, v \in DOMAIN linkMap :
       ( /\ DOMAIN linkMap = {u, v}
         /\ getTrackSource(u) = "pillows" /\ u[4] = "ab12"
         /\ getTrackSource(v) = "unknown" )
       => /\ Cardinality(DOMAIN linkMap) = 2
          /\ Cardinality({w \in DOMAIN linkMap : ~linkMap[w].isNull}) = 1
          /\ linkRequests = 0

\* C22 witness: the pass over a pillows.su link and an unknown-host link has
\* ended with one string and one null
C22_Witness ==
  /\ <<"https://", "pillows.su", "/f/", "ab12">> \in DOMAIN linkMap
  /\ <<"https://", "zz", "/f/", "ab12">> \in DOMAIN linkMap
  /\ ~linkMap[<<"https://", "pillows.su", "/f/", "ab12">>].isNull
  /\ linkMap[<<"https://", "zz", "/f/", "ab12">>].isNull

\* C23: decodeTrackFromUrl(encodeTrackForUrl(url)) is url, for every URL of
\* printable ASCII characters.
C23_ShareRoundTrip ==
  shareDecoded # NotDecoded =>
    ( /\ shareToken = encodeTrackForUrl(shareUrl)
      /\ shareDecoded = [isNull |-> FALSE, s |-> shareUrl] )

\* C23 witness: a URL whose base64 text has a / and needs padding was encoded
\* to a token with _ and without = and decoded
C23_Witness ==
  /\ shareDecoded # NotDecoded
  /\ Len(shareUrl) % 3 # 0
  /\ \E k \in 1..Len(shareToken) : shareToken[k] = "_"
  /\ Len(shareToken) % 4 # 0

\* C30: when the track requested last is the current track and its call has
\* settled, an older handlePlayTrack call that settles afterwards leaves the
\* current track and the queue as they are.
C30_LastPlayRequestWins ==
  [][ \A c \in handlerCalls \ handlerCalls' :
        ( /\ c.action = "play"
          /\ c.url # playRequested
          /\ HandlerCall("play", playRequested) \notin handlerCalls
          /\ playerState.currentTrack.url = playRequested )
        => /\ playerState'.currentTrack = playerState.currentTrack
           /\ playerState'.queue = playerState.queue ]_vars

\* the URLs of the window: the playable URLs of the first PRELOAD_COUNT entries
WindowUrls ==
  {preloadQueue[k] : k \in 1..(IF Len(preloadQueue) < PRELOAD_COUNT
                                THEN Len(preloadQueue) ELSE PRELOAD_COUNT)}
    \ {0}

\* C28: once the effect of a queue change has run, the map of audio elements
\* holds exactly the playable URLs of the first PRELOAD_COUNT queue entries,
\* so at most PRELOAD_COUNT of them; each element in the map has its URL as
\* src, and every element that is not in the map has been released (src "").
C28_PreloadedIsWindow ==
  (preloadMounted /\ ~effectPending) =>
    /\ DOMAIN preloadedAudio = WindowUrls
    /\ Cardinality(DOMAIN preloadedAudio) <= PRELOAD_COUNT
    /\ \A u \in DOMAIN preloadedAudio : audioSrc[preloadedAudio[u]] = u
    /\ \A id \in DOMAIN audioSrc :
         (\A u \in DOMAIN preloadedAudio : preloadedAudio[u] # id)
           => audioSrc[id] = 0

\* C28 witness: after the effect of a second queue change the queue has four
\* entries with four playable URLs, three elements are in the map and an
\* element of the earlier queue has been released.
C28_Witness ==
  /\ preloadMounted /\ ~effectPending
  /\ queueChanges = 2
  /\ Len(preloadQueue) = 4
  /\ Cardinality({preloadQueue[k] : k \in 1..4} \ {0}) = 4
  /\ Cardinality(DOMAIN preloadedAudio) = 3
  /\ \E id \in DOMAIN audioSrc : audioSrc[id] = 0
====
